---------------------------- MODULE Spec2Model ----------------------------
(***************************************************************************)
(* diff2test: the orchestrator loop (diff2test/__init__.py), the prompt   *)
(* builder (prompt_builder.py), the model client (ai_client.py), the       *)
(* response parser (response_parser.py), the git handler (git_handler.py)  *)
(* and the file writer (file_writer.py).                                   *)
(*                                                                         *)
(* A Python str is a sequence of one-character strings, so that strip(),   *)
(* "in", split() and the regular expression act on characters.  A Python   *)
(* "str | None" value is a record [none, val].                             *)
(***************************************************************************)
EXTENDS Integers, Sequences, FiniteSets, TLC

(***************************************************************************)
(* Bounds of the model.                                                    *)
(***************************************************************************)
MaxPieces == 5      \* an AI response is built from at most this many pieces
MaxRecords == 3     \* length of diff_infos
MaxInvalid == 1     \* rejected answers counted per confirmation
MaxTargetPieces == 3  \* a target is built from at most this many pieces
MaxSaves == 2        \* calls of the file writer on one file system
MaxDiffPieces == 4  \* a raw diff is built from at most this many pieces
MaxCalls == 3       \* calls of generate_text_from_prompt in one process
MaxContentPieces == 3  \* a diff_content is built from at most this many pieces
MaxRenders == 2     \* calls of create_test_prompt_for_diff

(***************************************************************************)
(* State of an orchestrate_test_generation run (diff2test/__init__.py).    *)
(***************************************************************************)
VARIABLES
    diff_infos,             \* the argument: a sequence of DiffInfo
    output_dir,             \* the argument: a path, or <<>> for None
    interactive,            \* the argument
    pc,                     \* where the run is
    idx,                    \* the for loop's i, 1-based: index of the record
    n_invalid,              \* rejected answers of the current while loop
    prompt,                 \* local
    raw_ai_text,            \* local
    generated_code,         \* local
    processed_files_count,  \* local
    saved_file_paths,       \* local
    vertex_ai_initialized_configs,  \* the global of ai_client.py
    sdk_inits,              \* the vertexai.init calls so far: [key, ok]
    files,                  \* file system: path -> content
    dirs,                   \* file system: the directories that exist
    \* what the run did, per record index
    last_input,             \* what input() returned in the last step, if it ran
    answer_of,              \* record -> the last answer typed for it, lower-cased
    rendered,               \* records for which a prompt was rendered
    init_failed,            \* records at which vertexai.init raised
    called,                 \* records for which generate_content was called
    call_failed,            \* records whose model load or call raised
    saved,                  \* records handed to save_test_code_to_file
    write_failed,           \* records whose mkdir, open or write raised
    surfaced,               \* records whose code was logged as text
    no_code,                \* records logged as "No test code ..."
    code_of,                \* record -> its generated_code at "if generated_code:"
    summary                 \* the "Processed N files" line, once logged

orch_vars == <<diff_infos, output_dir, interactive, pc, idx, n_invalid, prompt,
               raw_ai_text, generated_code, processed_files_count,
               saved_file_paths, vertex_ai_initialized_configs, sdk_inits,
               files, dirs,
               last_input, answer_of, rendered,
               init_failed, called, call_failed, saved, write_failed,
               surfaced, no_code, code_of, summary>>

(***************************************************************************)
(* State of the response parser applied to a bounded response.             *)
(***************************************************************************)
VARIABLES
    response,     \* the raw AI response under construction
    n_pieces,     \* the number of pieces response is made of
    extracted     \* Pending, or what the parser returned for response

parser_vars == <<response, n_pieces, extracted>>

(***************************************************************************)
(* State of the git handler (git_handler.py) and of direct calls of the    *)
(* file writer (file_writer.py).                                           *)
(***************************************************************************)
VARIABLES
    target,             \* the target argument: a str, or None
    n_target_pieces,    \* how many pieces target is built from
    refs,               \* the commits handed to get_diff_between_commits
    git_command,        \* the argv handed to _run_git_command, <<>> before
    git_outcome,        \* what subprocess.run did, "none" before
    raw_diff_output,    \* the stdout of git diff
    n_diff_pieces,      \* how many pieces raw_diff_output is built from
    diffs_info,         \* the value of _parse_diff_output
    parsed,             \* _parse_diff_output has returned
    last_save,          \* the last save_test_code_to_file call, its value
                        \* and the file system before it
    n_saves             \* how many calls were made

git_vars == <<target, n_target_pieces, refs, git_command, git_outcome,
              raw_diff_output, n_diff_pieces, diffs_info, parsed>>

writer_vars == <<last_save, n_saves>>

(***************************************************************************)
(* State of direct calls of the model client (ai_client.py) and of the     *)
(* prompt builder (prompt_builder.py).                                     *)
(***************************************************************************)
VARIABLES
    last_call,          \* the last generate_text_from_prompt call
    n_calls,            \* how many calls were made
    prompt_args,        \* the arguments of create_test_prompt_for_diff
    n_content_pieces,   \* how many pieces the diff_content is built from
    prompt_log,         \* the calls so far: <<arguments, prompt>>
    n_renders           \* how many calls were made

call_vars == <<last_call, n_calls>>

prompt_vars == <<prompt_args, n_content_pieces, prompt_log, n_renders>>

side_vars == <<call_vars, prompt_vars>>

\* what an orchestrator run leaves alone
pure_vars == <<parser_vars, git_vars, writer_vars, side_vars>>

vars == <<orch_vars, parser_vars, git_vars, writer_vars, side_vars>>

(***************************************************************************)
(* Python values: None and str.                                            *)
(***************************************************************************)
None == [none |-> TRUE, val |-> <<>>]

Str(s) == [none |-> FALSE, val |-> s]

\* the parser has not been called yet
Pending == [none |-> TRUE, val |-> <<"pending">>]

\* Python truthiness of a "str | None": None and "" are falsy.
Truthy(v) == ~v.none /\ v.val # <<>>

(***************************************************************************)
(* Characters and str methods.                                             *)
(***************************************************************************)
NL == "\n"

SP == " "

\* the backtick character (U+0060), which a TLA+ string cannot hold
BT == "BACKTICK"

\* str.isspace on the characters of the model
IsSpace(c) == c \in {SP, NL}

\* str.lower / re.IGNORECASE on the letters of the model
Lower(c) ==
    CASE c = "P" -> "p"
      [] c = "Y" -> "y"
      [] c = "T" -> "t"
      [] c = "H" -> "h"
      [] c = "O" -> "o"
      [] c = "N" -> "n"
      [] c = "Q" -> "q"
      [] OTHER -> c

LowerStr(s) == [i \in 1..Len(s) |-> Lower(s[i])]

\* str.strip(): drop the leading and the trailing whitespace
Strip(s) ==
    IF \A i \in 1..Len(s) : IsSpace(s[i]) THEN <<>>
    ELSE LET lo == CHOOSE i \in 1..Len(s) :
                     ~IsSpace(s[i]) /\ \A j \in 1..(i - 1) : IsSpace(s[j])
             hi == CHOOSE i \in 1..Len(s) :
                     ~IsSpace(s[i]) /\ \A j \in (i + 1)..Len(s) : IsSpace(s[j])
         IN  SubSeq(s, lo, hi)

\* t occurs in s at index i
OccursAt(s, t, i) ==
    /\ i >= 1
    /\ i + Len(t) - 1 <= Len(s)
    /\ \A j \in 1..Len(t) : s[i + j - 1] = t[j]

\* "t in s"
Contains(s, t) == \E i \in 1..(Len(s) + 1) : OccursAt(s, t, i)

\* str.find from index p (1-based); 0 when t does not occur at or after p
Find(s, t, p) ==
    IF \A i \in p..(Len(s) + 1) : ~OccursAt(s, t, i) THEN 0
    ELSE CHOOSE i \in p..(Len(s) + 1) :
           OccursAt(s, t, i) /\ \A j \in p..(i - 1) : ~OccursAt(s, t, j)

(***************************************************************************)
(* response_parser.py                                                      *)
(***************************************************************************)
SENTINEL == <<"N","O","_","T","E","S","T","S","_","N","E","E","D","E","D">>

FENCE == <<BT, BT, BT>>

TAG_PYTHON == <<"p","y","t","h","o","n">>

TAG_PY == <<"p","y">>

\* the keyword list without "def "
keywords_without_def ==
    { <<"i","m","p","o","r","t",SP>>, <<"c","l","a","s","s",SP>>,
      <<"a","s","s","e","r","t",SP>>, <<"@">> }

keywords == { <<"d","e","f",SP>>, <<"i","m","p","o","r","t",SP>>,
              <<"c","l","a","s","s",SP>>, <<"a","s","s","e","r","t",SP>>,
              <<"@">> }

\* the lower-case word t matches at index j of s under re.IGNORECASE
OccursAtIgnoreCase(s, t, j) ==
    /\ j + Len(t) - 1 <= Len(s)
    /\ \A m \in 1..Len(t) : Lower(s[j + m - 1]) = t[m]

\* (?:python|py)? at index j: the indexes right after the tag, in the order
\* the regex engine tries the alternatives (python, py, nothing).
TagEnds(s, j) ==
    (IF OccursAtIgnoreCase(s, TAG_PYTHON, j) THEN <<j + 6>> ELSE <<>>)
    \o (IF OccursAtIgnoreCase(s, TAG_PY, j) THEN <<j + 2>> ELSE <<>>)
    \o <<j>>

\* (.*?)\n<fence> from index p with re.DOTALL: the index of the first
\* newline+fence at or after p (the lazy group ends right before it); 0 when
\* there is none.
CloseFrom(s, p) == Find(s, <<NL>> \o FENCE, p)

\* \s*\n(.*?)\n<fence> from index j: \s* is greedy, so the engine takes the
\* last newline k of the whitespace run at j for which the rest still
\* matches.  The index of that newline, or 0.
NewlineAfterTag(s, j) ==
    LET ks == {k \in j..Len(s) :
                 /\ s[k] = NL
                 /\ \A m \in j..(k - 1) : IsSpace(s[m])
                 /\ CloseFrom(s, k + 1) # 0}
    IN  IF ks = {} THEN 0 ELSE CHOOSE k \in ks : \A m \in ks : m <= k

\* the pattern anchored at index i: group(1) as a str, or None
MatchAt(s, i) ==
    IF ~OccursAt(s, FENCE, i) THEN None
    ELSE LET ends == TagEnds(s, i + 3)
             ok == {n \in 1..Len(ends) : NewlineAfterTag(s, ends[n]) # 0}
         IN  IF ok = {} THEN None
             ELSE LET n == CHOOSE x \in ok : \A y \in ok : x <= y
                      k == NewlineAfterTag(s, ends[n])
                  IN  Str(SubSeq(s, k + 1, CloseFrom(s, k + 1) - 1))

\* code_block_pattern.search(ai_response): group(1) of the leftmost match
code_block_pattern_search(s) ==
    IF \A i \in 1..Len(s) : MatchAt(s, i).none THEN None
    ELSE MatchAt(s, CHOOSE i \in 1..Len(s) :
                      ~MatchAt(s, i).none /\ \A j \in 1..(i - 1) : MatchAt(s, j).none)

\* ai_response.split(<fence>)[1], for a response that contains a fence
content_between_ticks(s) ==
    LET a == Find(s, FENCE, 1)
        b == Find(s, FENCE, a + 3)
    IN  IF b = 0 THEN SubSeq(s, a + 3, Len(s)) ELSE SubSeq(s, a + 3, b - 1)

\* the parser with the fenced block searched before the sentinel
extract_fence_first(ai_response) ==
    IF ai_response = <<>> THEN None
    ELSE LET match == code_block_pattern_search(ai_response) IN
         IF ~match.none THEN Str(Strip(match.val))
         ELSE IF Contains(Strip(ai_response), SENTINEL) THEN Str(SENTINEL)
         ELSE IF Contains(ai_response, FENCE)
              THEN LET c == Strip(content_between_ticks(ai_response)) IN
                   IF c = <<>> \/ LowerStr(c) = TAG_PYTHON
                   THEN Str(<<>>)
                   ELSE None
         ELSE LET response_strip == Strip(ai_response) IN
              IF \E kw \in keywords : Contains(response_strip, kw)
              THEN Str(response_strip)
              ELSE None

\* the parser without the empty-string answer for an unmatched fence
extract_unmatched_fence_is_none(ai_response) ==
    IF ai_response = <<>> THEN None
    ELSE IF Contains(Strip(ai_response), SENTINEL) THEN Str(SENTINEL)
    ELSE LET match == code_block_pattern_search(ai_response) IN
         IF ~match.none THEN Str(Strip(match.val))
         ELSE IF Contains(ai_response, FENCE) THEN None
         ELSE LET response_strip == Strip(ai_response) IN
              IF \E kw \in keywords : Contains(response_strip, kw)
              THEN Str(response_strip)
              ELSE None

extract_python_code_from_response(ai_response) ==
    IF ai_response = <<>> THEN None
    ELSE IF Contains(Strip(ai_response), SENTINEL) THEN Str(SENTINEL)
    ELSE LET match == code_block_pattern_search(ai_response) IN
         IF ~match.none THEN Str(Strip(match.val))
         ELSE IF Contains(ai_response, FENCE)
              THEN LET c == Strip(content_between_ticks(ai_response)) IN
                   IF c = <<>> \/ LowerStr(c) = TAG_PYTHON
                   THEN Str(<<>>)
                   ELSE None
         ELSE LET response_strip == Strip(ai_response) IN
              IF \E kw \in keywords : Contains(response_strip, kw)
              THEN Str(response_strip)
              ELSE None

(***************************************************************************)
(* prompt_builder.py                                                       *)
(***************************************************************************)
DEFAULT_TEST_FRAMEWORK == "pytest"

\* The fixed text of a prompt line is one element of the str; the values the
\* f-strings put in and the fence lines are there character by character.
ROLE_HEAD == "You are an expert AI programming assistant specializing in Python and the "

ROLE_TAIL == " testing framework."

SENTINEL_LINE == "If the code changes are not sufficient to write tests, respond with 'NO_TESTS_NEEDED'."

FILE_HEAD == "The code changes are in the file: "

TAG_DIFF == <<"d", "i", "f", "f">>

INSTRUCTIONS_HEAD == "Instructions for your response:"

prompt_lines(diff_info, test_framework) ==
    << <<ROLE_HEAD, test_framework, ROLE_TAIL>>,
       <<"Your task is to generate unit tests for the provided code changes.">>,
       <<SENTINEL_LINE>>,
       <<>>,
       <<FILE_HEAD, BT>> \o diff_info.file_path \o <<BT>>,
       <<>>,
       <<"Please analyze the following diff carefully:">>,
       FENCE \o TAG_DIFF,
       diff_info.diff_content,
       FENCE,
       <<>>,
       <<"Based on these changes, please write concise and effective unit tests using ",
         test_framework, ".">>,
       <<"The tests should specifically target the modified or newly introduced behavior.">>,
       <<"Follow standard testing conventions and best practices for ",
         test_framework, ".">>,
       <<>>,
       <<INSTRUCTIONS_HEAD>>,
       <<"- Provide only the Python code for the tests.">>,
       <<"- Do not include any explanatory text, introductions, or summaries before or after the code block.">>,
       <<"- If you need to include comments, place them within the Python code itself (e.g., ",
         BT, "# This test checks...", BT, ").">> >>

\* a join that leaves out the empty lines
RECURSIVE JoinLines_drops_empty(_, _)
JoinLines_drops_empty(lines, k) ==
    IF k > Len(lines) THEN <<>>
    ELSE IF lines[k] = <<>> THEN JoinLines_drops_empty(lines, k + 1)
    ELSE IF k = Len(lines) THEN lines[k]
    ELSE lines[k] \o <<NL>> \o JoinLines_drops_empty(lines, k + 1)

\* "\n".join(lines[k:])
RECURSIVE JoinLines(_, _)
JoinLines(lines, k) ==
    IF k > Len(lines) THEN <<>>
    ELSE IF k = Len(lines) THEN lines[k]
    ELSE lines[k] \o <<NL>> \o JoinLines(lines, k + 1)

create_test_prompt_for_diff(diff_info, test_framework) ==
    JoinLines(prompt_lines(diff_info, test_framework), 1)

(***************************************************************************)
(* ai_client.py.  The SDK is the environment: env says whether              *)
(* vertexai.init and GenerativeModel(...) succeed and what generate_content *)
(* does.                                                                   *)
(***************************************************************************)
CallErrors == {"PermissionDenied", "NotFound", "ResourceExhausted",
               "InvalidArgument", "Exception"}

\* a complete python block: fence, python, newline, "def f", newline, fence
BLOCK == FENCE \o TAG_PYTHON \o <<NL, "d", "e", "f", SP, "f", NL>> \o FENCE

\* an empty python block: fence, python, newline, fence
EMPTY_BLOCK == FENCE \o TAG_PYTHON \o <<NL>> \o FENCE

WORD_JSON == <<"j", "s", "o", "n">>

\* the texts the model service answers with
ModelTexts == {SENTINEL, BLOCK, EMPTY_BLOCK, WORD_JSON}

\* what the SDK does during one generate_text_from_prompt call
Envs ==
    [init_ok : BOOLEAN, load_ok : BOOLEAN,
     call : {"text", "candidates", "no_text"} \cup CallErrors,
     text : ModelTexts \cup {<<>>}]

ConfigKey(ai_config) == <<ai_config.project_id, ai_config.region>>

\* _initialize_vertex_ai with the key added before vertexai.init is called
initialize_vertex_ai_adds_on_failure(ai_config, configs, init_ok) ==
    IF ConfigKey(ai_config) \notin configs
    THEN [raised |-> ~init_ok, configs |-> configs \cup {ConfigKey(ai_config)}]
    ELSE [raised |-> FALSE, configs |-> configs]

\* _initialize_vertex_ai: [raised, configs]
initialize_vertex_ai(ai_config, configs, init_ok) ==
    IF ConfigKey(ai_config) \notin configs
    THEN IF init_ok
         THEN [raised |-> FALSE, configs |-> configs \cup {ConfigKey(ai_config)}]
         ELSE [raised |-> TRUE, configs |-> configs]
    ELSE [raised |-> FALSE, configs |-> configs]

\* the vertexai.init calls after _initialize_vertex_ai: one more, with what
\* it did, when the key is not in configs
vertexai_init_calls(ai_config, configs, init_ok, inits) ==
    IF ConfigKey(ai_config) \notin configs
    THEN Append(inits, [key |-> ConfigKey(ai_config), ok |-> init_ok])
    ELSE inits

\* the value of a generate_text_from_prompt call and what it did
ClientResult(raised, val, configs, init_raised, did_call, failed) ==
    [raised |-> raised, val |-> val, configs |-> configs,
     init_failed |-> init_raised, called |-> did_call, call_failed |-> failed]

\* generate_text_from_prompt without the except clauses around generate_content
generate_text_from_prompt_call_raises(p, ai_config, configs, env) ==
    IF Len(p) = 0 THEN ClientResult(FALSE, None, configs, FALSE, FALSE, FALSE)
    ELSE LET init == initialize_vertex_ai(ai_config, configs, env.init_ok) IN
         IF init.raised
         THEN ClientResult(FALSE, None, init.configs, TRUE, FALSE, FALSE)
         ELSE IF ~env.load_ok
         THEN ClientResult(FALSE, None, init.configs, FALSE, FALSE, TRUE)
         ELSE IF env.call \in CallErrors
         THEN ClientResult(TRUE, None, init.configs, FALSE, TRUE, TRUE)
         ELSE IF env.call \in {"text", "candidates"} /\ env.text # <<>>
         THEN ClientResult(FALSE, Str(env.text), init.configs, FALSE, TRUE, FALSE)
         ELSE ClientResult(FALSE, None, init.configs, FALSE, TRUE, FALSE)

generate_text_from_prompt(p, ai_config, configs, env) ==
    IF Len(p) = 0 THEN ClientResult(FALSE, None, configs, FALSE, FALSE, FALSE)
    ELSE LET init == initialize_vertex_ai(ai_config, configs, env.init_ok) IN
         IF init.raised
         THEN \* except Exception: log "Halting due to ...", return None
              ClientResult(FALSE, None, init.configs, TRUE, FALSE, FALSE)
         ELSE IF ~env.load_ok
         THEN ClientResult(FALSE, None, init.configs, FALSE, FALSE, TRUE)
         ELSE IF env.call \in CallErrors
         THEN ClientResult(FALSE, None, init.configs, FALSE, TRUE, TRUE)
         ELSE IF env.call = "text" /\ env.text # <<>>
         THEN ClientResult(FALSE, Str(env.text), init.configs, FALSE, TRUE, FALSE)
         ELSE IF env.call = "candidates"
         THEN ClientResult(FALSE, Str(env.text), init.configs, FALSE, TRUE, FALSE)
         ELSE ClientResult(FALSE, None, init.configs, FALSE, TRUE, FALSE)

(***************************************************************************)
(* file_writer.py.  A path is a sequence of components, a component a      *)
(* sequence of name parts, so that "test_" + name is a component.  The     *)
(* file system is the environment: io says which call fails, if any.       *)
(***************************************************************************)
IoOutcomes == {"ok", "mkdir_fail", "open_fail", "write_fail"}

\* the first component of an absolute path
ROOT == <<"/">>

\* Path.name and Path.parent
PathName(path) == path[Len(path)]

PathParent(path) == SubSeq(path, 1, Len(path) - 1)

\* Path / Path: an absolute right operand replaces the left one
PathJoin(a, b) == IF b # <<>> /\ b[1] = ROOT THEN b ELSE a \o b

\* a directory and all its ancestors: mkdir(parents=True, exist_ok=True)
WithParents(d) == {SubSeq(d, 1, k) : k \in 0..Len(d)}

\* the value of a save_test_code_to_file call and the file system after it
\* (raised: an exception left the call; the except clauses catch them all)
WriterResult(path, fs_files, fs_dirs, failed) ==
    [raised |-> FALSE, path |-> path, files |-> fs_files, dirs |-> fs_dirs,
     failed |-> failed]

\* the writer with a failed write left uncaught
save_write_failure_raises(original_file_path, generated_test_code, base_output_dir, fs_files, fs_dirs, io) ==
    IF generated_test_code = <<>>
    THEN WriterResult(None, fs_files, fs_dirs, FALSE)
    ELSE LET test_file_name == <<"test_">> \o PathName(original_file_path)
             relative_parent_dir == PathParent(original_file_path)
             parent == PathJoin(base_output_dir, relative_parent_dir)
             test_file_output_path == parent \o <<test_file_name>>
         IN  IF io = "mkdir_fail"
             THEN WriterResult(None, fs_files, fs_dirs, TRUE)
             ELSE IF io = "open_fail"
             THEN WriterResult(None, fs_files, fs_dirs \cup WithParents(parent), TRUE)
             ELSE IF io = "write_fail"
             THEN \* open(..., "w") has truncated the file
                  [raised |-> TRUE, path |-> None,
                   files |-> (test_file_output_path :> <<>>) @@ fs_files,
                   dirs |-> fs_dirs \cup WithParents(parent), failed |-> TRUE]
             ELSE WriterResult(Str(test_file_output_path),
                               (test_file_output_path :> generated_test_code) @@ fs_files,
                               fs_dirs \cup WithParents(parent), FALSE)

\* the writer with the file opened for appending
save_appends(original_file_path, generated_test_code, base_output_dir, fs_files, fs_dirs, io) ==
    IF generated_test_code = <<>>
    THEN WriterResult(None, fs_files, fs_dirs, FALSE)
    ELSE LET test_file_name == <<"test_">> \o PathName(original_file_path)
             relative_parent_dir == PathParent(original_file_path)
             parent == PathJoin(base_output_dir, relative_parent_dir)
             test_file_output_path == parent \o <<test_file_name>>
         IN  IF io = "mkdir_fail"
             THEN WriterResult(None, fs_files, fs_dirs, TRUE)
             ELSE IF io = "open_fail"
             THEN WriterResult(None, fs_files, fs_dirs \cup WithParents(parent), TRUE)
             ELSE IF io = "write_fail"
             THEN \* open(..., "w") has truncated the file
                  WriterResult(None,
                               (test_file_output_path :> <<>>) @@ fs_files,
                               fs_dirs \cup WithParents(parent), TRUE)
             ELSE WriterResult(Str(test_file_output_path),
                               (test_file_output_path :>
                                  (IF test_file_output_path \in DOMAIN fs_files
                                   THEN fs_files[test_file_output_path]
                                   ELSE <<>>) \o generated_test_code) @@ fs_files,
                               fs_dirs \cup WithParents(parent), FALSE)

\* the writer with the directory made before the empty code is rejected
save_empty_makes_directory(original_file_path, generated_test_code, base_output_dir, fs_files, fs_dirs, io) ==
    IF generated_test_code = <<>>
    THEN WriterResult(None, fs_files,
                      fs_dirs \cup WithParents(PathJoin(base_output_dir,
                                                       PathParent(original_file_path))),
                      FALSE)
    ELSE LET test_file_name == <<"test_">> \o PathName(original_file_path)
             relative_parent_dir == PathParent(original_file_path)
             parent == PathJoin(base_output_dir, relative_parent_dir)
             test_file_output_path == parent \o <<test_file_name>>
         IN  IF io = "mkdir_fail"
             THEN WriterResult(None, fs_files, fs_dirs, TRUE)
             ELSE IF io = "open_fail"
             THEN WriterResult(None, fs_files, fs_dirs \cup WithParents(parent), TRUE)
             ELSE IF io = "write_fail"
             THEN \* open(..., "w") has truncated the file
                  WriterResult(None,
                               (test_file_output_path :> <<>>) @@ fs_files,
                               fs_dirs \cup WithParents(parent), TRUE)
             ELSE WriterResult(Str(test_file_output_path),
                               (test_file_output_path :> generated_test_code) @@ fs_files,
                               fs_dirs \cup WithParents(parent), FALSE)

save_test_code_to_file(original_file_path, generated_test_code, base_output_dir, fs_files, fs_dirs, io) ==
    IF generated_test_code = <<>>
    THEN WriterResult(None, fs_files, fs_dirs, FALSE)
    ELSE LET test_file_name == <<"test_">> \o PathName(original_file_path)
             relative_parent_dir == PathParent(original_file_path)
             parent == PathJoin(base_output_dir, relative_parent_dir)
             test_file_output_path == parent \o <<test_file_name>>
         IN  IF io = "mkdir_fail"
             THEN WriterResult(None, fs_files, fs_dirs, TRUE)
             ELSE IF io = "open_fail"
             THEN WriterResult(None, fs_files, fs_dirs \cup WithParents(parent), TRUE)
             ELSE IF io = "write_fail"
             THEN \* open(..., "w") has truncated the file
                  WriterResult(None,
                               (test_file_output_path :> <<>>) @@ fs_files,
                               fs_dirs \cup WithParents(parent), TRUE)
             ELSE WriterResult(Str(test_file_output_path),
                               (test_file_output_path :> generated_test_code) @@ fs_files,
                               fs_dirs \cup WithParents(parent), FALSE)

(***************************************************************************)
(* git_handler.py.  The raw output of git diff is a str; a DiffInfo is a   *)
(* record [file_path, diff_content] of two str.                            *)
(***************************************************************************)
DIFF_GIT == <<"d","i","f","f",SP,"-","-","g","i","t",SP,"a","/">>

MINUS_A == <<"-","-","-",SP,"a","/">>

PLUS_B == <<"+","+","+",SP,"b","/">>

DEV_NULL == <<"/","d","e","v","/","n","u","l","l">>

\* str.split(d) from index p: the parts between the occurrences of d
RECURSIVE SplitFrom(_, _, _)
SplitFrom(s, d, p) ==
    LET q == Find(s, d, p)
    IN  IF q = 0 THEN <<SubSeq(s, p, Len(s))>>
        ELSE <<SubSeq(s, p, q - 1)>> \o SplitFrom(s, d, q + Len(d))

\* str.splitlines(): no line for the empty str, none after a final newline
SplitLines(s) ==
    IF s = <<>> THEN <<>>
    ELSE LET parts == SplitFrom(s, <<NL>>, 1)
         IN  IF s[Len(s)] = NL THEN SubSeq(parts, 1, Len(parts) - 1) ELSE parts

\* str.startswith
StartsWith(s, t) == OccursAt(s, t, 1)

\* the loop over the lines of a section from line k: the pair
\* <<file_path_a, file_path_b>> when the loop ends or breaks
RECURSIVE ScanPaths(_, _, _, _)
ScanPaths(lines, k, file_path_a, file_path_b) ==
    IF k > Len(lines) THEN <<file_path_a, file_path_b>>
    ELSE LET line_content == lines[k]
             a == IF StartsWith(line_content, MINUS_A)
                  THEN Str(Strip(SubSeq(line_content, Len(MINUS_A) + 1,
                                        Len(line_content))))
                  ELSE file_path_a
             b == IF ~StartsWith(line_content, MINUS_A)
                     /\ StartsWith(line_content, PLUS_B)
                  THEN Str(Strip(SubSeq(line_content, Len(PLUS_B) + 1,
                                        Len(line_content))))
                  ELSE file_path_b
         IN  IF ~a.none /\ ~b.none THEN <<a, b>>
             ELSE ScanPaths(lines, k + 1, a, b)

\* the effective path of a section: file_path_b unless it is empty or
\* /dev/null, else file_path_a unless it is empty or /dev/null, else None
EffectivePath(file_path_a, file_path_b) ==
    IF Truthy(file_path_b) /\ file_path_b.val # DEV_NULL THEN file_path_b
    ELSE IF Truthy(file_path_a) /\ file_path_a.val # DEV_NULL THEN file_path_a
    ELSE None

\* the body of the loop over individual_file_diffs: the DiffInfo records
\* (none or one) that a section adds to diffs_info
SectionRecords(file_diff_section) ==
    LET lines == SplitLines(Strip(file_diff_section))
    IN  IF lines = <<>> THEN <<>>
        ELSE LET full_diff_content_for_ai == DIFF_GIT \o Strip(file_diff_section)
                 paths == ScanPaths(lines, 1, None, None)
                 effective_path == EffectivePath(paths[1], paths[2])
             IN  IF Truthy(effective_path)
                 THEN << [file_path |-> effective_path.val,
                          diff_content |-> full_diff_content_for_ai] >>
                 ELSE <<>>

\* the loop over the sections ending at the first section without a record
RECURSIVE RecordsOfSections_stops_at_dropped(_, _)
RecordsOfSections_stops_at_dropped(sections, k) ==
    IF k > Len(sections) THEN <<>>
    ELSE IF SectionRecords(sections[k]) = <<>> THEN <<>>
    ELSE SectionRecords(sections[k])
            \o RecordsOfSections_stops_at_dropped(sections, k + 1)

RECURSIVE RecordsOfSections(_, _)
RecordsOfSections(sections, k) ==
    IF k > Len(sections) THEN <<>>
    ELSE SectionRecords(sections[k]) \o RecordsOfSections(sections, k + 1)

parse_diff_output(raw) ==
    IF Strip(raw) = <<>> THEN <<>>
    ELSE LET parts == SplitFrom(<<NL>> \o Strip(raw),
                                <<NL>> \o DIFF_GIT, 1)
             individual_file_diffs == SubSeq(parts, 2, Len(parts))
         IN  RecordsOfSections(individual_file_diffs, 1)

\* the two glob patterns of _get_effective_pathspecs and the exclude magic
python_files_glob == <<"*","*","/","*",".","p","y">>

exclude_tests_glob == <<"*","*","/","t","e","s","t","_","*",".","p","y">>

EXCLUDE == <<":","(","e","x","c","l","u","d","e",")">>

DOT_PY == <<".","p","y">>

\* str.rstrip("/")
RECURSIVE RStripSlash(_)
RStripSlash(s) ==
    IF s # <<>> /\ s[Len(s)] = "/" THEN RStripSlash(SubSeq(s, 1, Len(s) - 1))
    ELSE s

\* str.endswith
EndsWith(s, t) == OccursAt(s, t, Len(s) - Len(t) + 1)

\* the pathspecs with the trailing slashes of the target kept
get_effective_pathspecs_keeps_slashes(tgt) ==
    IF Truthy(tgt)
    THEN IF EndsWith(tgt.val, DOT_PY)
         THEN <<tgt.val, EXCLUDE \o exclude_tests_glob>>
         ELSE IF Strip(tgt.val) = <<>>
         THEN <<python_files_glob, EXCLUDE \o exclude_tests_glob>>
         ELSE <<tgt.val \o <<"/">> \o python_files_glob,
                EXCLUDE \o tgt.val \o <<"/">> \o exclude_tests_glob>>
    ELSE <<python_files_glob, EXCLUDE \o exclude_tests_glob>>

\* one pathspec for the files, one for the excluded tests
get_effective_pathspecs(tgt) ==
    IF Truthy(tgt)
    THEN LET clean_target == RStripSlash(tgt.val)
         IN  IF EndsWith(clean_target, DOT_PY)
             THEN <<clean_target, EXCLUDE \o exclude_tests_glob>>
             ELSE IF Strip(clean_target) = <<>>
             THEN <<python_files_glob, EXCLUDE \o exclude_tests_glob>>
             ELSE <<clean_target \o <<"/">> \o python_files_glob,
                    EXCLUDE \o clean_target \o <<"/">> \o exclude_tests_glob>>
    ELSE <<python_files_glob, EXCLUDE \o exclude_tests_glob>>

GIT == <<"g","i","t">>

DIFF == <<"d","i","f","f">>

UNIFIED == <<"-","-","u","n","i","f","i","e","d","=","3">>

HEAD == <<"H","E","A","D">>

DASHDASH == <<"-","-">>

\* the git command of get_current_changes (up to _run_git_command)
current_changes_command(tgt) ==
    LET git_command_base == <<GIT, DIFF, UNIFIED, HEAD>>
        effective_pathspecs == get_effective_pathspecs(tgt)
    IN  IF effective_pathspecs # <<>>
        THEN git_command_base \o <<DASHDASH>> \o effective_pathspecs
        ELSE git_command_base

\* the git command of get_diff_between_commits (up to _run_git_command)
between_commits_command(commit_a, commit_b, tgt) ==
    LET git_command_base == <<GIT, DIFF, UNIFIED, commit_a, commit_b>>
        effective_pathspecs == get_effective_pathspecs(tgt)
    IN  IF effective_pathspecs # <<>>
        THEN git_command_base \o <<DASHDASH>> \o effective_pathspecs
        ELSE git_command_base

\* what subprocess.run does: git is missing, git exits non-zero, or git
\* prints its output
GitOutcomes == {"FileNotFoundError", "CalledProcessError", "stdout"}

\* _run_git_command with the exceptions logged and not raised again
run_git_command_swallows(outcome, stdout) ==
    [raised |-> FALSE, val |-> IF outcome = "stdout" THEN stdout ELSE <<>>]

\* _run_git_command: both exceptions are logged and raised again
run_git_command(outcome, stdout) ==
    IF outcome = "stdout" THEN [raised |-> FALSE, val |-> stdout]
    ELSE [raised |-> TRUE, val |-> <<>>]

\* the value of a get_current_changes or get_diff_between_commits call:
\* the command it ran and the records, or the exception of _run_git_command
HandlerResult(command, run) ==
    [command |-> command, raised |-> run.raised,
     val |-> IF run.raised THEN <<>> ELSE parse_diff_output(run.val)]

get_current_changes(tgt, outcome, stdout) ==
    HandlerResult(current_changes_command(tgt), run_git_command(outcome, stdout))

get_diff_between_commits(commit_a, commit_b, tgt, outcome, stdout) ==
    HandlerResult(between_commits_command(commit_a, commit_b, tgt),
                  run_git_command(outcome, stdout))

(***************************************************************************)
(* __init__.py: orchestrate_test_generation                                *)
(***************************************************************************)
\* the k-th record of a diff: odd records lie under src/, even ones at the root
DiffInfoOf(k) ==
    [file_path |-> (IF k % 2 = 1 THEN << <<"src">> >> ELSE <<>>) \o << <<"mod", k, ".py">> >>,
     diff_content |-> <<"diff", k>>]

DiffInfosOfLen(n) == [k \in 1..n |-> DiffInfoOf(k)]

\* _process_diff_infos builds the AIConfig of the run
ai_config == [project_id |-> "p1", region |-> "r1",
              model_name |-> "gemini-2.0-flash-001"]

\* what the user may type at the confirmation
RawInputs == { <<"y">>, <<"Y">>, <<"n">>, <<"N">>, <<"q">>, <<"Q">>, <<>>,
               <<"x">>, <<"y", "y">> }

AcceptedChoices == { <<"y">>, <<"n">>, <<"q">>, <<>> }

NoSummary == [logged |-> FALSE, count |-> 0, dir |-> <<>>]

EmptyFiles == [path \in {} |-> <<>>]

NoCodes == [k \in {} |-> None]

NoAnswers == [k \in {} |-> <<>>]

\* last_input when the last step was not a call of input()
NoInput == <<"no input">>

\* no save_test_code_to_file call yet
NoSave == [made |-> FALSE]

\* the git handler and the direct writer calls are not in use
GitIdle ==
    /\ target = None
    /\ n_target_pieces = 0
    /\ refs = <<>>
    /\ git_command = <<>>
    /\ git_outcome = "none"
    /\ raw_diff_output = <<>>
    /\ n_diff_pieces = 0
    /\ diffs_info = <<>>
    /\ parsed = FALSE

WriterIdle ==
    /\ last_save = NoSave
    /\ n_saves = 0

\* no generate_text_from_prompt call yet
NoCall == [made |-> FALSE]

\* create_test_prompt_for_diff has no arguments yet
NoArgs == [diff_info |-> [file_path |-> <<>>, diff_content |-> <<>>],
           test_framework |-> ""]

\* no direct call of the model client or of the prompt builder
SideIdle ==
    /\ last_call = NoCall
    /\ n_calls = 0
    /\ prompt_args = NoArgs
    /\ n_content_pieces = 0
    /\ prompt_log = {}
    /\ n_renders = 0

Init ==
    /\ diff_infos \in {DiffInfosOfLen(n) : n \in 0..MaxRecords}
    /\ output_dir \in { <<>>, << <<"tests">> >> }
    /\ interactive \in BOOLEAN
    /\ pc = "for"
    /\ idx = 1
    /\ n_invalid = 0
    /\ prompt = <<>>
    /\ raw_ai_text = None
    /\ generated_code = None
    /\ processed_files_count = 0
    /\ saved_file_paths = <<>>
    /\ vertex_ai_initialized_configs = {}
    /\ sdk_inits = <<>>
    /\ files = EmptyFiles
    /\ dirs = {<<>>}
    /\ last_input = NoInput
    /\ answer_of = NoAnswers
    /\ rendered = {}
    /\ init_failed = {}
    /\ called = {}
    /\ call_failed = {}
    /\ saved = {}
    /\ write_failed = {}
    /\ surfaced = {}
    /\ no_code = {}
    /\ code_of = NoCodes
    /\ summary = NoSummary
    /\ response = <<>>
    /\ n_pieces = 0
    /\ extracted = Pending
    /\ GitIdle
    /\ WriterIdle /\ SideIdle

fs_vars == <<files, dirs>>

arg_vars == <<diff_infos, output_dir, interactive>>

client_vars == <<vertex_ai_initialized_configs, sdk_inits, init_failed, called,
                 call_failed>>

output_vars == <<processed_files_count, saved_file_paths, saved, write_failed,
                 surfaced, no_code, code_of>>

input_vars == <<answer_of, n_invalid>>

\* for i, diff_info in enumerate(diff_infos): the next record, or the end
ForStep ==
    /\ pc = "for"
    /\ pc' = IF idx > Len(diff_infos) THEN "summary"
             ELSE IF interactive THEN "input" ELSE "prompt"
    /\ last_input' = NoInput
    /\ UNCHANGED <<arg_vars, idx, prompt, raw_ai_text, generated_code, fs_vars,
                   client_vars, output_vars, input_vars, rendered, summary,
                   pure_vars>>

\* Accepted for a while loop that never breaks
Accepted_never(raw) == FALSE

\* choice = input(...).lower(); if choice in ["y", "n", "q", ""]
Accepted(raw) == LowerStr(raw) \in AcceptedChoices

\* Choice with the blank answer defaulting to yes
Choice_blank_is_yes(raw) == IF LowerStr(raw) = <<>> THEN <<"y">> ELSE LowerStr(raw)

\* if choice == "": choice = "n"
Choice(raw) == IF LowerStr(raw) = <<>> THEN <<"n">> ELSE LowerStr(raw)

\* LoopControl with continue where the break belongs
LoopControl_quit_continues(choice) ==
    IF choice \in {<<"n">>, <<"q">>} THEN "continue" ELSE "proceed"

\* if choice == "n": continue / elif choice == "q": break / else go on
LoopControl(choice) ==
    IF choice = <<"n">> THEN "continue"
    ELSE IF choice = <<"q">> THEN "break"
    ELSE "proceed"

\* one turn of the while loop, and the if after it when the answer is accepted
Input(raw) ==
    /\ pc = "input"
    /\ last_input' = raw
    /\ answer_of' = (idx :> LowerStr(raw)) @@ answer_of
    /\ IF Accepted(raw)
       THEN /\ n_invalid' = 0
            /\ IF LoopControl(Choice(raw)) = "proceed"
               THEN pc' = "prompt" /\ UNCHANGED idx
               ELSE IF LoopControl(Choice(raw)) = "break"
               THEN pc' = "summary" /\ UNCHANGED idx
               ELSE pc' = "for" /\ idx' = idx + 1
       ELSE \* a rejected answer: the while loop asks again, any number of
            \* times; n_invalid counts the rejections up to MaxInvalid
            /\ n_invalid' = IF n_invalid < MaxInvalid THEN n_invalid + 1
                            ELSE n_invalid
            /\ UNCHANGED <<pc, idx>>
    /\ UNCHANGED <<arg_vars, prompt, raw_ai_text, generated_code, fs_vars,
                   client_vars, output_vars, rendered, summary, pure_vars>>

\* prompt = create_test_prompt_for_diff(diff_info)
RenderPrompt ==
    /\ pc = "prompt"
    /\ prompt' = create_test_prompt_for_diff(diff_infos[idx], DEFAULT_TEST_FRAMEWORK)
    /\ rendered' = rendered \cup {idx}
    /\ pc' = "generate"
    /\ last_input' = NoInput
    /\ UNCHANGED <<arg_vars, idx, raw_ai_text, generated_code, fs_vars,
                   client_vars, output_vars, input_vars, summary, pure_vars>>

\* raw_ai_text = generate_text_from_prompt(prompt, ai_config); generated_code = None
Generate(env) ==
    /\ pc = "generate"
    /\ LET r == generate_text_from_prompt(prompt, ai_config,
                                          vertex_ai_initialized_configs, env) IN
       /\ vertex_ai_initialized_configs' = r.configs
       /\ sdk_inits' = IF Len(prompt) = 0 THEN sdk_inits
                       ELSE vertexai_init_calls(ai_config,
                              vertex_ai_initialized_configs, env.init_ok, sdk_inits)
       /\ init_failed' = IF r.init_failed THEN init_failed \cup {idx} ELSE init_failed
       /\ called' = IF r.called THEN called \cup {idx} ELSE called
       /\ call_failed' = IF r.call_failed THEN call_failed \cup {idx} ELSE call_failed
       /\ IF r.raised
          THEN pc' = "raised" /\ UNCHANGED <<raw_ai_text, generated_code>>
          ELSE pc' = "extract" /\ raw_ai_text' = r.val /\ generated_code' = None
    /\ UNCHANGED <<arg_vars, idx, prompt, fs_vars, output_vars, input_vars,
                   last_input, rendered, summary, pure_vars>>

\* if raw_ai_text: generated_code = extract_python_code_from_response(raw_ai_text)
ExtractCode ==
    /\ pc = "extract"
    /\ generated_code' = IF Truthy(raw_ai_text)
                         THEN extract_python_code_from_response(raw_ai_text.val)
                         ELSE None
    /\ pc' = "output"
    /\ UNCHANGED <<arg_vars, idx, prompt, raw_ai_text, fs_vars, client_vars,
                   output_vars, input_vars, last_input, rendered, summary,
                   pure_vars>>

\* OutputMode with "is not None" in place of the truth test
OutputMode_empty_is_code(code, dir) ==
    IF code.none THEN "no_code"
    ELSE IF dir # <<>> THEN "save" ELSE "log"

\* OutputMode that saves whether or not an output directory is given
OutputMode_always_save(code, dir) ==
    IF ~Truthy(code) THEN "no_code" ELSE "save"

\* if generated_code: (if output_dir: save, else: log) else: log "No test code"
OutputMode(code, dir) ==
    IF ~Truthy(code) THEN "no_code"
    ELSE IF dir # <<>> THEN "save" ELSE "log"

\* the if statement that ends the loop body
Output(io) ==
    /\ pc = "output"
    /\ code_of' = (idx :> generated_code) @@ code_of
    /\ IF OutputMode(generated_code, output_dir) # "no_code"
       THEN /\ processed_files_count' = processed_files_count + 1
            /\ UNCHANGED no_code
            /\ IF OutputMode(generated_code, output_dir) = "save"
               THEN LET w == save_test_code_to_file(diff_infos[idx].file_path,
                                                    generated_code.val, output_dir,
                                                    files, dirs, io) IN
                    /\ saved' = saved \cup {idx}
                    /\ files' = w.files
                    /\ dirs' = w.dirs
                    /\ write_failed' = IF w.failed THEN write_failed \cup {idx}
                                       ELSE write_failed
                    /\ saved_file_paths' = IF ~w.raised /\ Truthy(w.path)
                                           THEN Append(saved_file_paths, w.path.val)
                                           ELSE saved_file_paths
                    /\ IF w.raised
                       THEN pc' = "raised" /\ UNCHANGED idx
                       ELSE pc' = "for" /\ idx' = idx + 1
                    /\ UNCHANGED surfaced
               ELSE /\ surfaced' = surfaced \cup {idx}
                    /\ pc' = "for"
                    /\ idx' = idx + 1
                    /\ UNCHANGED <<fs_vars, saved, write_failed, saved_file_paths>>
       ELSE /\ no_code' = no_code \cup {idx}
            /\ pc' = "for"
            /\ idx' = idx + 1
            /\ UNCHANGED <<fs_vars, processed_files_count, saved_file_paths, saved,
                           write_failed, surfaced>>
    /\ UNCHANGED <<arg_vars, prompt, raw_ai_text, generated_code, client_vars,
                   input_vars, last_input, rendered, summary, pure_vars>>

\* the "Processed N files" line after the loop
Summary ==
    /\ pc = "summary"
    /\ summary' = [logged |-> TRUE, count |-> processed_files_count,
                   dir |-> output_dir]
    /\ pc' = "done"
    /\ last_input' = NoInput
    /\ UNCHANGED <<arg_vars, idx, prompt, raw_ai_text, generated_code, fs_vars,
                   client_vars, output_vars, input_vars, rendered, pure_vars>>

Next ==
    \/ ForStep
    \/ \E raw \in RawInputs : Input(raw)
    \/ RenderPrompt
    \/ \E env \in Envs : Generate(env)
    \/ ExtractCode
    \/ \E io \in IoOutcomes : Output(io)
    \/ Summary

Spec == Init /\ [][Next]_vars

(***************************************************************************)
(* The response parser on bounded responses: a response is a concatenation *)
(* of at most MaxPieces pieces, and the parser is applied to it.           *)
(***************************************************************************)
Pieces == { FENCE, TAG_PYTHON, <<"P", "y">>, WORD_JSON, <<NL>>,
            <<"d", "e", "f", SP>>, SENTINEL, BLOCK }

\* no orchestrator run: the parser is called on its own
ParserInit ==
    /\ diff_infos = <<>>
    /\ output_dir = <<>>
    /\ interactive = FALSE
    /\ pc = "idle"
    /\ idx = 1
    /\ n_invalid = 0
    /\ prompt = <<>>
    /\ raw_ai_text = None
    /\ generated_code = None
    /\ processed_files_count = 0
    /\ saved_file_paths = <<>>
    /\ vertex_ai_initialized_configs = {}
    /\ sdk_inits = <<>>
    /\ files = EmptyFiles
    /\ dirs = {<<>>}
    /\ last_input = NoInput
    /\ answer_of = NoAnswers
    /\ rendered = {}
    /\ init_failed = {}
    /\ called = {}
    /\ call_failed = {}
    /\ saved = {}
    /\ write_failed = {}
    /\ surfaced = {}
    /\ no_code = {}
    /\ code_of = NoCodes
    /\ summary = NoSummary
    /\ response = <<>>
    /\ n_pieces = 0
    /\ extracted = Pending
    /\ GitIdle
    /\ WriterIdle /\ SideIdle

\* the response grows by one piece
AppendPiece(p) ==
    /\ extracted = Pending
    /\ n_pieces < MaxPieces
    /\ response' = response \o p
    /\ n_pieces' = n_pieces + 1
    /\ UNCHANGED <<side_vars, extracted, orch_vars, git_vars, writer_vars>>

\* extract_python_code_from_response(response)
Extract ==
    /\ extracted = Pending
    /\ extracted' = extract_python_code_from_response(response)
    /\ UNCHANGED <<side_vars, response, n_pieces, orch_vars, git_vars, writer_vars>>

ParserNext ==
    \/ \E p \in Pieces : AppendPiece(p)
    \/ Extract

SpecExtract == ParserInit /\ [][ParserNext]_vars

(***************************************************************************)
(* The diff parser on its own: _parse_diff_output applied to a raw diff    *)
(* built from at most MaxDiffPieces pieces.                                *)
(***************************************************************************)
\* the lines a raw diff is built from
LINE_DIFF_GIT == DIFF_GIT \o <<"m",".","p","y",SP,"b","/","m",".","p","y",NL>>

LINE_MINUS_A == MINUS_A \o <<"m",".","p","y",NL>>

LINE_PLUS_B == PLUS_B \o <<"m",".","p","y",NL>>

LINE_PLUS_B_RENAMED == PLUS_B \o <<"n",".","p","y",NL>>

\* a pre-image header with a blank path
LINE_MINUS_A_BLANK == MINUS_A \o <<NL>>

LINE_MINUS_NULL == <<"-","-","-",SP,"/","d","e","v","/","n","u","l","l",NL>>

LINE_PLUS_NULL == <<"+","+","+",SP,"/","d","e","v","/","n","u","l","l",NL>>

HUNK == <<"@","@",SP,"-","1",SP,"+","1",SP,"@","@",NL,"+","x",NL>>

\* a blank context line: one space
LINE_BLANK_CONTEXT == <<SP, NL>>

DiffPieces == { LINE_DIFF_GIT, LINE_MINUS_A, LINE_PLUS_B, LINE_PLUS_B_RENAMED,
                LINE_MINUS_A_BLANK, LINE_MINUS_NULL, LINE_PLUS_NULL, HUNK,
                LINE_BLANK_CONTEXT }

\* no orchestrator run, no parser call, no writer call
OrchIdle ==
    /\ diff_infos = <<>>
    /\ output_dir = <<>>
    /\ interactive = FALSE
    /\ pc = "idle"
    /\ idx = 1
    /\ n_invalid = 0
    /\ prompt = <<>>
    /\ raw_ai_text = None
    /\ generated_code = None
    /\ processed_files_count = 0
    /\ saved_file_paths = <<>>
    /\ vertex_ai_initialized_configs = {}
    /\ sdk_inits = <<>>
    /\ files = EmptyFiles
    /\ dirs = {<<>>}
    /\ last_input = NoInput
    /\ answer_of = NoAnswers
    /\ rendered = {}
    /\ init_failed = {}
    /\ called = {}
    /\ call_failed = {}
    /\ saved = {}
    /\ write_failed = {}
    /\ surfaced = {}
    /\ no_code = {}
    /\ code_of = NoCodes
    /\ summary = NoSummary

ParserIdle ==
    /\ response = <<>>
    /\ n_pieces = 0
    /\ extracted = Pending

DiffInit == OrchIdle /\ ParserIdle /\ GitIdle /\ WriterIdle /\ SideIdle

\* the raw diff grows by one piece
AppendDiffPiece(p) ==
    /\ ~parsed
    /\ n_diff_pieces < MaxDiffPieces
    /\ raw_diff_output' = raw_diff_output \o p
    /\ n_diff_pieces' = n_diff_pieces + 1
    /\ UNCHANGED <<side_vars, target, n_target_pieces, refs, git_command, git_outcome,
                   diffs_info, parsed, orch_vars, parser_vars, writer_vars>>

\* diffs_info = _parse_diff_output(raw_diff_output)
ParseDiff ==
    /\ ~parsed
    /\ diffs_info' = parse_diff_output(raw_diff_output)
    /\ parsed' = TRUE
    /\ UNCHANGED <<side_vars, target, n_target_pieces, refs, git_command, git_outcome,
                   raw_diff_output, n_diff_pieces, orch_vars, parser_vars,
                   writer_vars>>

DiffNext ==
    \/ \E p \in DiffPieces : AppendDiffPiece(p)
    \/ ParseDiff

SpecDiff == DiffInit /\ [][DiffNext]_vars

(***************************************************************************)
(* The git handler on its own: get_current_changes and                     *)
(* get_diff_between_commits called with a target built from at most        *)
(* MaxTargetPieces pieces.                                                 *)
(***************************************************************************)
TargetPieces == { <<"/">>, <<SP>>, <<"s","r","c">>, DOT_PY, <<"a","p","p">> }

REF_OLD == <<"H","E","A","D","~","1">>

\* the pairs of commits of a range
RefPairs == { <<REF_OLD, HEAD>>, <<HEAD, REF_OLD>> }

\* what git diff may print
ONE_FILE_DIFF == LINE_DIFF_GIT \o LINE_MINUS_A \o LINE_PLUS_B \o HUNK

TWO_FILE_DIFF ==
    LINE_DIFF_GIT \o LINE_MINUS_A \o LINE_PLUS_NULL \o HUNK
      \o DIFF_GIT \o <<"n",".","p","y",SP,"b","/","n",".","p","y",NL>> \o LINE_MINUS_NULL
      \o LINE_PLUS_B_RENAMED \o HUNK

RawDiffs == { <<>>, ONE_FILE_DIFF, TWO_FILE_DIFF }

GitInit ==
    /\ OrchIdle /\ ParserIdle /\ WriterIdle /\ SideIdle
    /\ target \in {None, Str(<<>>)}
    /\ n_target_pieces = 0
    /\ refs = <<>>
    /\ git_command = <<>>
    /\ git_outcome = "none"
    /\ raw_diff_output = <<>>
    /\ n_diff_pieces = 0
    /\ diffs_info = <<>>
    /\ parsed = FALSE

\* the target grows by one piece
AppendTargetPiece(p) ==
    /\ git_outcome = "none"
    /\ ~target.none
    /\ n_target_pieces < MaxTargetPieces
    /\ target' = Str(target.val \o p)
    /\ n_target_pieces' = n_target_pieces + 1
    /\ UNCHANGED <<side_vars, refs, git_command, git_outcome, raw_diff_output,
                   n_diff_pieces, diffs_info, parsed, orch_vars, parser_vars,
                   writer_vars>>

\* the git handler has run: its command, the output of git and the records
HandlerEffect(h, outcome, stdout) ==
    /\ git_command' = h.command
    /\ git_outcome' = outcome
    /\ raw_diff_output' = IF outcome = "stdout" THEN stdout ELSE <<>>
    /\ diffs_info' = h.val
    /\ parsed' = ~h.raised
    /\ UNCHANGED n_diff_pieces

\* get_current_changes(target)
GetCurrentChanges(outcome, stdout) ==
    /\ git_outcome = "none"
    /\ pc = "idle"
    /\ LET h == get_current_changes(target, outcome, stdout) IN
       /\ HandlerEffect(h, outcome, stdout)
       /\ pc' = IF h.raised THEN "raised" ELSE "returned"
    /\ UNCHANGED <<side_vars, target, n_target_pieces, refs, parser_vars, writer_vars,
                   diff_infos, output_dir, interactive, idx, n_invalid, prompt,
                   raw_ai_text, generated_code, fs_vars, client_vars,
                   output_vars, answer_of, last_input, rendered, summary>>

\* get_diff_between_commits(commit_a, commit_b, target)
GetDiffBetweenCommits(commit_a, commit_b, outcome, stdout) ==
    /\ git_outcome = "none"
    /\ pc = "idle"
    /\ refs' = <<commit_a, commit_b>>
    /\ LET h == get_diff_between_commits(commit_a, commit_b, target, outcome, stdout) IN
       /\ HandlerEffect(h, outcome, stdout)
       /\ pc' = IF h.raised THEN "raised" ELSE "returned"
    /\ UNCHANGED <<side_vars, target, n_target_pieces, parser_vars, writer_vars,
                   diff_infos, output_dir, interactive, idx, n_invalid, prompt,
                   raw_ai_text, generated_code, fs_vars, client_vars,
                   output_vars, answer_of, last_input, rendered, summary>>

GitNext ==
    \/ \E p \in TargetPieces : AppendTargetPiece(p)
    \/ \E outcome \in GitOutcomes : \E stdout \in RawDiffs :
         GetCurrentChanges(outcome, stdout)
    \/ \E pair \in RefPairs : \E outcome \in GitOutcomes : \E stdout \in RawDiffs :
         GetDiffBetweenCommits(pair[1], pair[2], outcome, stdout)

SpecGit == GitInit /\ [][GitNext]_vars

(***************************************************************************)
(* A whole run: process_current_changes or process_commit_range, that is   *)
(* the git handler and then the orchestrator on the records it returned.   *)
(***************************************************************************)
\* Path(original_file_path_str): the components of a path str, the root
\* first when the str starts with a slash
PathOf(s) ==
    (IF StartsWith(s, <<"/">>) THEN <<ROOT>> ELSE <<>>)
        \o SelectSeq(SplitFrom(s, <<"/">>, 1), LAMBDA c : c # <<>>)

\* the records of the git handler handed over last record first
ToDiffInfos_reversed(recs) ==
    [k \in 1..Len(recs) |->
        [file_path |-> PathOf(recs[Len(recs) + 1 - k].file_path),
         diff_content |-> recs[Len(recs) + 1 - k].diff_content]]

\* the records of the git handler as the orchestrator's diff_infos
ToDiffInfos(recs) ==
    [k \in 1..Len(recs) |-> [file_path |-> PathOf(recs[k].file_path),
                             diff_content |-> recs[k].diff_content]]

ProcessTargets == {None, Str(<<"s","r","c">>)}

ProcessInit ==
    /\ diff_infos = <<>>
    /\ output_dir \in { <<>>, << <<"tests">> >> }
    /\ interactive \in BOOLEAN
    /\ pc = "start"
    /\ idx = 1
    /\ n_invalid = 0
    /\ prompt = <<>>
    /\ raw_ai_text = None
    /\ generated_code = None
    /\ processed_files_count = 0
    /\ saved_file_paths = <<>>
    /\ vertex_ai_initialized_configs = {}
    /\ sdk_inits = <<>>
    /\ files = EmptyFiles
    /\ dirs = {<<>>}
    /\ last_input = NoInput
    /\ answer_of = NoAnswers
    /\ rendered = {}
    /\ init_failed = {}
    /\ called = {}
    /\ call_failed = {}
    /\ saved = {}
    /\ write_failed = {}
    /\ surfaced = {}
    /\ no_code = {}
    /\ code_of = NoCodes
    /\ summary = NoSummary
    /\ ParserIdle /\ GitIdle /\ WriterIdle /\ SideIdle

\* diff_infos = get_...(target=target): an exception of the git handler
\* leaves the process_... function, else _process_diff_infos starts the loop
ProcessEffect(h, tgt, outcome, stdout) ==
    /\ pc = "start"
    /\ target' = tgt
    /\ HandlerEffect(h, outcome, stdout)
    /\ IF h.raised
       THEN pc' = "raised" /\ UNCHANGED diff_infos
       ELSE pc' = "for" /\ diff_infos' = ToDiffInfos(h.val)
    /\ UNCHANGED <<side_vars, n_target_pieces, parser_vars, writer_vars, output_dir,
                   interactive, idx, n_invalid, prompt, raw_ai_text,
                   generated_code, fs_vars, client_vars, output_vars,
                   answer_of, last_input, rendered, summary>>

\* process_current_changes(project_id, region, output_dir, interactive, target)
ProcessCurrentChanges(tgt, outcome, stdout) ==
    /\ ProcessEffect(get_current_changes(tgt, outcome, stdout), tgt, outcome, stdout)
    /\ UNCHANGED refs

\* process_commit_range(commit_a, commit_b, ...)
ProcessCommitRange(commit_a, commit_b, tgt, outcome, stdout) ==
    /\ ProcessEffect(get_diff_between_commits(commit_a, commit_b, tgt, outcome, stdout),
                     tgt, outcome, stdout)
    /\ refs' = <<commit_a, commit_b>>

ProcessNext ==
    \/ \E tgt \in ProcessTargets : \E outcome \in GitOutcomes : \E stdout \in RawDiffs :
         ProcessCurrentChanges(tgt, outcome, stdout)
    \/ \E tgt \in ProcessTargets : \E outcome \in GitOutcomes : \E stdout \in RawDiffs :
         ProcessCommitRange(REF_OLD, HEAD, tgt, outcome, stdout)
    \/ Next

SpecProcess == ProcessInit /\ [][ProcessNext]_vars

(***************************************************************************)
(* The file writer on its own: at most MaxSaves calls of                   *)
(* save_test_code_to_file on one file system.                              *)
(***************************************************************************)
WriterPaths ==
    { << <<"src">>, <<"module">>, <<"component", ".py">> >>,
      << <<"single_file", ".py">> >>,
      << ROOT, <<"etc">>, <<"x", ".py">> >> }

WriterCodes == { <<>>, <<"a">>, <<"b">> }

WriterRoots == { << <<"tests">> >>, << <<"out">>, <<"t">> >> }

WriterInit == OrchIdle /\ ParserIdle /\ GitIdle /\ WriterIdle /\ SideIdle

\* save_test_code_to_file(original_file_path, code, base_output_dir)
Save(original_file_path, code, base_output_dir, io) ==
    /\ n_saves < MaxSaves
    /\ LET w == save_test_code_to_file(original_file_path, code, base_output_dir,
                                       files, dirs, io) IN
       /\ files' = w.files
       /\ dirs' = w.dirs
       /\ last_save' = [made |-> TRUE,
                        original_file_path |-> original_file_path,
                        code |-> code,
                        base_output_dir |-> base_output_dir,
                        io |-> io,
                        raised |-> w.raised,
                        path |-> w.path,
                        files_before |-> files,
                        dirs_before |-> dirs]
    /\ n_saves' = n_saves + 1
    /\ UNCHANGED <<side_vars, parser_vars, git_vars, arg_vars, pc, idx, prompt, raw_ai_text,
                   generated_code, client_vars, output_vars, input_vars,
                   last_input, rendered, summary>>

WriterNext ==
    \E original_file_path \in WriterPaths : \E code \in WriterCodes :
      \E base_output_dir \in WriterRoots : \E io \in IoOutcomes :
        Save(original_file_path, code, base_output_dir, io)

SpecWriter == WriterInit /\ [][WriterNext]_vars

(***************************************************************************)
(* The prompt builder called on its own (SpecPrompt): the diff_content     *)
(* grows piece by piece and a prompt is rendered for what it is then.      *)
(***************************************************************************)
PromptPaths == { <<"m", ".", "p", "y">>, <<"s", "r", "c", "/", "a", ".", "p", "y">> }

Frameworks == { DEFAULT_TEST_FRAMEWORK, "unittest" }

\* a hunk, a post-image header, an empty line and a line that is a fence
ContentPieces == { HUNK, LINE_PLUS_B, <<NL>>, FENCE \o <<NL>> }

PromptInit ==
    /\ OrchIdle /\ ParserIdle /\ GitIdle /\ WriterIdle
    /\ last_call = NoCall
    /\ n_calls = 0
    /\ prompt_args \in [diff_info : [file_path : PromptPaths, diff_content : {<<>>}],
                        test_framework : Frameworks]
    /\ n_content_pieces = 0
    /\ prompt_log = {}
    /\ n_renders = 0

\* the diff_content grows by one piece
AppendContentPiece(p) ==
    /\ n_content_pieces < MaxContentPieces
    /\ prompt_args' = [prompt_args EXCEPT !.diff_info.diff_content = @ \o p]
    /\ n_content_pieces' = n_content_pieces + 1
    /\ UNCHANGED <<prompt_log, n_renders, call_vars, orch_vars, parser_vars,
                   git_vars, writer_vars>>

\* prompt = create_test_prompt_for_diff(diff_info, test_framework)
RenderFor ==
    /\ n_renders < MaxRenders
    /\ prompt' = create_test_prompt_for_diff(prompt_args.diff_info,
                                             prompt_args.test_framework)
    /\ prompt_log' = prompt_log \cup {<<prompt_args, prompt'>>}
    /\ n_renders' = n_renders + 1
    /\ UNCHANGED <<prompt_args, n_content_pieces, call_vars, parser_vars,
                   git_vars, writer_vars, arg_vars, pc, idx, raw_ai_text,
                   generated_code, fs_vars, client_vars, output_vars,
                   input_vars, last_input, rendered, summary>>

PromptNext ==
    \/ \E p \in ContentPieces : AppendContentPiece(p)
    \/ RenderFor

SpecPrompt == PromptInit /\ [][PromptNext]_vars

(***************************************************************************)
(* The model client called on its own (SpecClient): a process calls        *)
(* generate_text_from_prompt several times, for one AIConfig or another.   *)
(***************************************************************************)
CONFIG_A == [project_id |-> "p1", region |-> "r1",
             model_name |-> "gemini-2.0-flash-001"]

CONFIG_B == [project_id |-> "p2", region |-> "r1",
             model_name |-> "gemini-2.0-flash-001"]

ClientConfigs == {CONFIG_A, CONFIG_B}

ClientPrompts == { <<>>, <<"p">> }

ClientInit == OrchIdle /\ ParserIdle /\ GitIdle /\ WriterIdle /\ SideIdle

\* generate_text_from_prompt(p, cfg)
ClientCall(p, cfg, env) ==
    /\ pc = "idle"
    /\ n_calls < MaxCalls
    /\ LET r == generate_text_from_prompt(p, cfg, vertex_ai_initialized_configs, env) IN
       /\ vertex_ai_initialized_configs' = r.configs
       /\ sdk_inits' = IF Len(p) = 0 THEN sdk_inits
                       ELSE vertexai_init_calls(cfg, vertex_ai_initialized_configs,
                                                env.init_ok, sdk_inits)
       /\ last_call' = [made |-> TRUE, prompt |-> p, ai_config |-> cfg,
                        raised |-> r.raised, val |-> r.val,
                        init_failed |-> r.init_failed, called |-> r.called]
    /\ n_calls' = n_calls + 1
    /\ UNCHANGED <<prompt_vars, parser_vars, git_vars, writer_vars, arg_vars, pc,
                   idx, prompt, raw_ai_text, generated_code, fs_vars,
                   init_failed, called, call_failed, output_vars, input_vars,
                   last_input, rendered, summary>>

ClientNext ==
    \E p \in ClientPrompts : \E cfg \in ClientConfigs : \E env \in Envs :
        ClientCall(p, cfg, env)

SpecClient == ClientInit /\ [][ClientNext]_vars

(***************************************************************************)
(* Properties of an orchestrator run (Spec).                               *)
(***************************************************************************)
Records == 1..Len(diff_infos)

\* where the test file of record j goes
TestPathOf(j) ==
    output_dir \o PathParent(diff_infos[j].file_path)
               \o << <<"test_">> \o PathName(diff_infos[j].file_path) >>

SavedPaths == {saved_file_paths[k] : k \in 1..Len(saved_file_paths)}

\* the records by the answer the user gave last
AnsweredYes == {j \in DOMAIN answer_of : answer_of[j] = <<"y">>}

AnsweredNo == {j \in DOMAIN answer_of : answer_of[j] \in {<<"n">>, <<>>}}

AnsweredQuit == {j \in DOMAIN answer_of : answer_of[j] = <<"q">>}

\* the records whose parser result was the NO_TESTS_NEEDED sentinel
SentinelRecords ==
    {j \in DOMAIN code_of : ~code_of[j].none /\ code_of[j].val = SENTINEL}

\* the records whose loop body has ended
Handled == DOMAIN code_of \cup AnsweredNo

\* C1: a record whose response is NO_TESTS_NEEDED is "no code generated": it
\* is not counted in processed_files_count, the writer is not called for it
\* and no file exists for it; a run of two records with an output directory,
\* one answered NO_TESTS_NEEDED and one with a fenced block, writes one file.
C1_SentinelIsNoCode ==
    /\ \A j \in SentinelRecords :
         /\ j \in no_code
         /\ j \notin saved \cup surfaced
         /\ TestPathOf(j) \notin DOMAIN files
    /\ processed_files_count =
         Cardinality({j \in DOMAIN code_of \ SentinelRecords : Truthy(code_of[j])})
    /\ ( /\ pc = "done"
         /\ Len(diff_infos) = 2
         /\ output_dir # <<>>
         /\ write_failed = {}
         /\ Cardinality(SentinelRecords) = 1
         /\ \E j \in DOMAIN code_of : code_of[j] = Str(<<"d", "e", "f", SP, "f">>)
       ) => Cardinality(DOMAIN files) = 1

\* C2: a failure of vertexai.init at record k leaves the orchestrator as an
\* exception, and no record after k is rendered, sent to the model or written.
C2_InitFailureIsFatal ==
    \A k \in init_failed :
        /\ pc = "raised"
        /\ \A j \in rendered \cup called \cup saved \cup surfaced : j <= k

\* C3: a failure of the model load, of the model call or of the file write at
\* record j never leaves the orchestrator as an exception, record j adds no
\* saved path, and the run goes on to the records after j.
C3_LocalFailuresAreIsolated ==
    \A j \in call_failed \cup write_failed :
        /\ pc # "raised"
        /\ TestPathOf(j) \notin SavedPaths
        /\ (j \in call_failed => j \notin saved \cup surfaced)
        /\ (j \in call_failed /\ j \in DOMAIN code_of => j \in no_code)
        /\ j <= idx
        /\ (j = idx => pc \in {"extract", "output"})
        /\ (j < idx => j \in DOMAIN code_of)
        /\ (pc = "for" => ENABLED ForStep)
        /\ (pc = "done" /\ AnsweredQuit = {}
              => \A k \in Records : k > j => k \in Handled)

C3_Witness ==
    /\ pc = "done"
    /\ \E j \in call_failed : \E k \in write_failed : \E m \in Records :
         j < k /\ k < m /\ TestPathOf(m) \in SavedPaths

\* C4: once the user answers quit at record q, the run is at its summary: no
\* confirmation is asked again, no record from q on is rendered, sent to the
\* model or written, and the summary is logged with the count of the records
\* before q.
C4_QuitHaltsTheRun ==
    \A q \in AnsweredQuit :
        /\ pc \in {"summary", "done"}
        /\ idx = q
        /\ \A j \in Records : j >= q =>
             /\ j \notin rendered \cup called \cup saved \cup surfaced
             /\ j \notin DOMAIN code_of
             /\ TestPathOf(j) \notin DOMAIN files
        /\ \A j \in Records : j > q => j \notin DOMAIN answer_of
        /\ (pc = "summary" => ENABLED Summary)
        /\ (pc = "done" =>
              /\ summary.logged
              /\ summary.count = processed_files_count
              /\ summary.count =
                   Cardinality({j \in 1..(q - 1) :
                                  j \in DOMAIN code_of /\ Truthy(code_of[j])}))

C4_Witness ==
    /\ pc = "done"
    /\ Len(diff_infos) = 3
    /\ AnsweredQuit = {2}
    /\ summary.logged
    /\ summary.count = 1

\* C5: in interactive mode a record is rendered and sent to the model only
\* after the answer y; the answer n or a blank answer skips that record alone
\* (no model call, no file, no count) and the loop goes to the next record;
\* any other answer than y, n, q or blank (in either letter case) is rejected
\* and the same record is asked again.
C5_OnlyYesReachesTheModel ==
    interactive =>
        /\ rendered \cup called \cup DOMAIN code_of \subseteq AnsweredYes
        /\ \A j \in AnsweredNo :
             /\ j < idx
             /\ j \notin rendered \cup called \cup saved \cup surfaced \cup no_code
             /\ TestPathOf(j) \notin DOMAIN files
        /\ processed_files_count =
             Cardinality({j \in AnsweredYes : j \in DOMAIN code_of /\ Truthy(code_of[j])})
        /\ Len(saved_file_paths) <= Cardinality(saved)
        /\ (last_input # NoInput =>
              IF LowerStr(last_input) = <<"y">>
              THEN pc = "prompt" /\ idx \in AnsweredYes
              ELSE IF LowerStr(last_input) \in {<<"n">>, <<>>}
              THEN pc = "for" /\ (idx - 1) \in AnsweredNo
              ELSE IF LowerStr(last_input) = <<"q">>
              THEN pc = "summary"
              ELSE /\ pc = "input"
                   /\ idx \in DOMAIN answer_of
                   /\ idx \notin rendered \cup DOMAIN code_of
                   /\ ENABLED Input(<<"y">>))

C5_Witness ==
    /\ interactive
    /\ pc = "done"
    /\ Len(diff_infos) = 3
    /\ answer_of[1] = <<>>
    /\ 2 \in called
    /\ 2 \in AnsweredYes
    /\ answer_of[3] = <<"n">>

\* C6: a record with non-empty code gets exactly one output: with an output
\* directory the code goes to the writer and is not logged as text; without
\* one it is logged as text and the writer is not called, so that no file is
\* written and no directory is made.
C6_ExactlyOneOutputMode ==
    /\ \A j \in DOMAIN code_of : Truthy(code_of[j]) =>
         IF output_dir # <<>>
         THEN j \in saved /\ j \notin surfaced
         ELSE j \in surfaced /\ j \notin saved
    /\ \A j \in saved \ write_failed :
         /\ TestPathOf(j) \in DOMAIN files
         /\ files[TestPathOf(j)] = code_of[j].val
    /\ (output_dir = <<>> =>
          /\ saved = {}
          /\ saved_file_paths = <<>>
          /\ files = EmptyFiles
          /\ dirs = {<<>>})

C6_Witness ==
    /\ pc = "done"
    /\ output_dir = <<>>
    /\ Cardinality(surfaced) >= 2
    /\ no_code # {}


(***************************************************************************)
(* Properties of the response parser (SpecExtract).                        *)
(***************************************************************************)
\* the indexes right after an optional python/py tag (any letter case) at j
TagEndsAt(s, j) ==
    {j} \cup (IF OccursAtIgnoreCase(s, TAG_PYTHON, j) THEN {j + 6} ELSE {})
        \cup (IF OccursAtIgnoreCase(s, TAG_PY, j) THEN {j + 2} ELSE {})

\* a fence line starts at i (fence, optional python/py tag, blanks, newline)
\* and the interior of its block starts at a
OpensAt(s, i, a) ==
    /\ OccursAt(s, FENCE, i)
    /\ a - 1 <= Len(s)
    /\ \E t \in TagEndsAt(s, i + 3) :
         /\ t <= a - 1
         /\ s[a - 1] = NL
         /\ \A m \in t..(a - 2) : s[m] = SP

\* a complete block starts at i: its fence line, then a newline + fence later
BlockAt(s, i) ==
    \E a \in (i + 4)..(Len(s) + 1) :
        OpensAt(s, i, a) /\ Find(s, <<NL>> \o FENCE, a) # 0

\* the interior of the block at i: from after the fence line to the first
\* newline + fence
InteriorAt(s, i) ==
    LET a == CHOOSE x \in (i + 4)..(Len(s) + 1) : OpensAt(s, i, x)
    IN  SubSeq(s, a, Find(s, <<NL>> \o FENCE, a) - 1)

FirstBlock(s) ==
    CHOOSE i \in 1..Len(s) : BlockAt(s, i) /\ \A j \in 1..(i - 1) : ~BlockAt(s, j)

\* the fenced-python pattern matches somewhere in s
PatternMatches(s) ==
    \E i \in 1..Len(s) :
        /\ OccursAt(s, FENCE, i)
        /\ \E t \in TagEndsAt(s, i + 3) : \E k \in t..Len(s) :
             /\ s[k] = NL
             /\ \A m \in t..(k - 1) : IsSpace(s[m])
             /\ \E q \in (k + 1)..Len(s) : OccursAt(s, <<NL>> \o FENCE, q)

\* the text after the first fence, up to the next fence or the end
AfterFirstFence(s) ==
    LET a == CHOOSE x \in 1..Len(s) :
               OccursAt(s, FENCE, x) /\ \A y \in 1..(x - 1) : ~OccursAt(s, FENCE, y)
        later == {x \in (a + 3)..Len(s) : OccursAt(s, FENCE, x)}
    IN  IF later = {} THEN SubSeq(s, a + 3, Len(s))
        ELSE SubSeq(s, a + 3, (CHOOSE x \in later : \A y \in later : x <= y) - 1)

\* s is one fenced block (python, py or no tag) with a blank interior
IsEmptyBlock(s) ==
    /\ Len(s) >= 7
    /\ OccursAt(s, FENCE, 1)
    /\ OccursAt(s, FENCE, Len(s) - 2)
    /\ \E t \in TagEndsAt(s, 4) :
         /\ t <= Len(s) - 3
         /\ \A m \in t..(Len(s) - 3) : IsSpace(s[m])
         /\ \E m \in t..(Len(s) - 3) : s[m] = NL

\* C7: a response that contains NO_TESTS_NEEDED anywhere (alone, in prose or
\* inside a fenced block) is parsed to the sentinel, whatever else it holds.
C7_SentinelTakesPrecedence ==
    (extracted # Pending /\ Contains(response, SENTINEL))
        => extracted = Str(SENTINEL)

C7_Witness ==
    /\ extracted = Str(SENTINEL)
    /\ response = FENCE \o <<NL>> \o SENTINEL \o <<NL>> \o FENCE

\* C8: a response without the sentinel that holds a complete fenced block
\* (no tag, or python/py in any letter case) is parsed to the trimmed
\* interior of the first such block.
C8_FirstBlockWins ==
    ( /\ extracted # Pending
      /\ ~Contains(response, SENTINEL)
      /\ \E i \in 1..Len(response) : BlockAt(response, i) )
        => extracted = Str(Strip(InteriorAt(response, FirstBlock(response))))

\* C9: a response that is one fenced block (python, py or no tag) with an
\* empty or blank interior is parsed to the empty string, not to None.
C9_EmptyBlockIsEmptyCode ==
    (extracted # Pending /\ IsEmptyBlock(response)) => extracted = Str(<<>>)

\* C10 as stated: a response without the sentinel that has a fence marker
\* but no match of the fenced-python pattern is parsed to None.
C10_UnmatchedFenceIsNone ==
    ( /\ extracted # Pending
      /\ ~Contains(response, SENTINEL)
      /\ Contains(response, FENCE)
      /\ ~PatternMatches(response) )
        => extracted = None

\* C10 as amended: such a response is never parsed to non-empty code; it is
\* parsed to the empty string when the text after the first fence marker, up
\* to the next marker or the end, is blank or the word python, and to None
\* when that text is anything else but the tag py.
C10_UnmatchedFenceIsNoneOrEmpty ==
    ( /\ extracted # Pending
      /\ ~Contains(response, SENTINEL)
      /\ Contains(response, FENCE)
      /\ ~PatternMatches(response) )
        => LET c == LowerStr(Strip(AfterFirstFence(response))) IN
           /\ extracted \in {None, Str(<<>>)}
           /\ (c \in {<<>>, TAG_PYTHON} => extracted = Str(<<>>))
           /\ (c \notin {<<>>, TAG_PYTHON, TAG_PY} => extracted = None)

C10_Witness ==
    /\ extracted = None
    /\ ~PatternMatches(response)
    /\ OccursAt(response, FENCE \o WORD_JSON \o <<NL>>, 1)
    /\ OccursAt(response, FENCE, Len(response) - 2)
    /\ Len(response) > 11

\* C11: a response with neither the sentinel nor a fence marker is parsed to
\* the whole text, trimmed, when the trimmed text holds one of the keywords
\* "def ", "import ", "class ", "assert ", "@", and to None otherwise; the
\* empty and the all-whitespace response are parsed to None.
C11_KeywordFallback ==
    ( /\ extracted # Pending
      /\ ~Contains(response, SENTINEL)
      /\ ~Contains(response, FENCE) )
        => /\ extracted =
                (IF \E kw \in { <<"d","e","f",SP>>, <<"i","m","p","o","r","t",SP>>,
                                <<"c","l","a","s","s",SP>>,
                                <<"a","s","s","e","r","t",SP>>, <<"@">> } :
                        \E i \in 1..Len(response) :
                            /\ OccursAt(response, kw, i)
                            /\ \E m \in (i + Len(kw) - 1)..Len(response) :
                                  ~IsSpace(response[m])
                            /\ \E m \in 1..i : ~IsSpace(response[m])
                 THEN Str(Strip(response))
                 ELSE None)
           /\ ((\A m \in 1..Len(response) : IsSpace(response[m]))
                 => extracted = None)

C11_Witness ==
    /\ response = <<NL>> \o <<"d","e","f",SP>> \o TAG_PYTHON \o <<NL>>
    /\ extracted = Str(<<"d","e","f",SP>> \o TAG_PYTHON)

(***************************************************************************)
(* Properties of the diff parser (SpecDiff).                               *)
(***************************************************************************)
\* the indexes of r at which a line starts
LineStarts(r) == {j \in 1..Len(r) : j = 1 \/ r[j - 1] = NL}

\* the index right after the line that starts at j (its newline excluded)
LineEnd(r, j) == IF Find(r, <<NL>>, j) = 0 THEN Len(r) + 1 ELSE Find(r, <<NL>>, j)

\* the segments of r: the lines that start with diff --git a/
SegStarts(r) == {i \in LineStarts(r) : OccursAt(r, DIFF_GIT, i)}

\* the last index of the segment that starts at i
SegEnd(r, i) ==
    IF \E j \in SegStarts(r) : j > i
    THEN (CHOOSE j \in SegStarts(r) : j > i /\ \A m \in SegStarts(r) : m > i => j <= m) - 1
    ELSE Len(r)

\* the lines of the segment at i that start with the prefix t
LinesWith(r, i, t) ==
    {j \in LineStarts(r) : j >= i /\ j <= SegEnd(r, i) /\ OccursAt(r, t, j)}

\* the path a header line at j names after the 6 characters of its prefix
PathAt(r, j) == Strip(SubSeq(r, j + 6, LineEnd(r, j) - 1))

\* the segment at i names a file on its pre-image or its post-image side
Usable(r, i) ==
    \E j \in LinesWith(r, i, MINUS_A) \cup LinesWith(r, i, PLUS_B) :
        PathAt(r, j) \notin {<<>>, DEV_NULL}

RECURSIVE Ascending(_)
Ascending(S) ==
    IF S = {} THEN <<>>
    ELSE LET m == CHOOSE x \in S : \A y \in S : x <= y
         IN  <<m>> \o Ascending(S \ {m})

\* the usable segments of r, in the order of the text
UsableSegs(r) == Ascending({i \in SegStarts(r) : Usable(r, i)})

\* C12: the parser returns one record per diff --git a/ segment that names a
\* usable path, so none for a raw diff without segments; the record of a
\* deleted file (--- a/P, +++ /dev/null) and of an added file (--- /dev/null,
\* +++ b/P) has file_path P.
C12_OneRecordPerUsableSegment ==
    parsed =>
      LET r == raw_diff_output
          segs == UsableSegs(r)
      IN  /\ Len(diffs_info) = Len(segs)
          /\ (SegStarts(r) = {} => diffs_info = <<>>)
          /\ \A k \in 1..Len(segs) :
               LET a == LinesWith(r, segs[k], MINUS_A)
                   b == LinesWith(r, segs[k], PLUS_B)
               IN  /\ ( /\ Cardinality(a) = 1 /\ b = {}
                        /\ LinesWith(r, segs[k], LINE_PLUS_NULL) # {} )
                        => \A j \in a : diffs_info[k].file_path = PathAt(r, j)
                   /\ ( /\ Cardinality(b) = 1 /\ a = {}
                        /\ LinesWith(r, segs[k], LINE_MINUS_NULL) # {} )
                        => \A j \in b : diffs_info[k].file_path = PathAt(r, j)

\* C13: every record's diff_content begins with diff --git a/ and holds a
\* line that starts with "--- " and a line that starts with "+++ ".
C13_RecordsHaveBothHeaders ==
    parsed =>
      \A k \in 1..Len(diffs_info) :
        LET c == diffs_info[k].diff_content
        IN  /\ OccursAt(c, DIFF_GIT, 1)
            /\ \E j \in LineStarts(c) : OccursAt(c, <<"-","-","-",SP>>, j)
            /\ \E j \in LineStarts(c) : OccursAt(c, <<"+","+","+",SP>>, j)

\* the text of the segment at i, the newline of its last line left out
SegText(r, i) ==
    IF r[SegEnd(r, i)] = NL THEN SubSeq(r, i, SegEnd(r, i) - 1)
    ELSE SubSeq(r, i, SegEnd(r, i))

RECURSIVE JoinContents(_, _)
JoinContents(recs, k) ==
    IF k > Len(recs) THEN <<>>
    ELSE IF k = Len(recs) THEN recs[k].diff_content
    ELSE recs[k].diff_content \o <<NL>> \o JoinContents(recs, k + 1)

\* C14: when the raw diff starts with a segment and every segment gives a
\* record, each record's diff_content is the text of its segment, character
\* for character (up to the newline that ends its last line), and the
\* contents joined with newlines are the raw diff.
C14_DiffContentIsVerbatim ==
    ( /\ parsed
      /\ 1 \in SegStarts(raw_diff_output)
      /\ Len(diffs_info) = Cardinality(SegStarts(raw_diff_output)) )
      => LET r == raw_diff_output
             segs == Ascending(SegStarts(r))
         IN  /\ \A k \in 1..Len(segs) :
                  diffs_info[k].diff_content = SegText(r, segs[k])
             /\ JoinContents(diffs_info, 1) = SegText(r, 1) \o
                  (IF Len(segs) = 1 THEN <<>>
                   ELSE SubSeq(r, SegEnd(r, 1) + 1,
                               Len(r) - (IF r[Len(r)] = NL THEN 1 ELSE 0)))

(***************************************************************************)
(* Properties of the git handler (SpecGit).                                *)
(***************************************************************************)
\* s with the slashes at its end removed
WithoutTrailingSlashes(s) ==
    SubSeq(s, 1, CHOOSE n \in 0..Len(s) :
                   /\ n = 0 \/ s[n] # "/"
                   /\ \A m \in (n + 1)..Len(s) : s[m] = "/")

Blank(s) == \A m \in 1..Len(s) : IsSpace(s[m])

\* the command a call must have run: git diff --unified=3, HEAD or the two
\* commits, --, and the two pathspecs
CommandWith(pathspecs) ==
    <<GIT, DIFF, UNIFIED>> \o (IF refs = <<>> THEN <<HEAD>> ELSE refs)
        \o <<DASHDASH>> \o pathspecs

GlobalPathspecs == <<python_files_glob, EXCLUDE \o exclude_tests_glob>>

FilePathspecs(f) == <<f, EXCLUDE \o exclude_tests_glob>>

DirPathspecs(d) ==
    <<d \o <<"/">> \o python_files_glob,
      EXCLUDE \o d \o <<"/">> \o exclude_tests_glob>>

\* C15 as stated: an absent, empty or whitespace-only target gives the global
\* pathspecs; a target that ends in .py once its trailing slashes are removed
\* gives that file; any other target T gives T/**/*.py and its exclusion.
C15_PathspecsByTarget ==
    git_command # <<>> =>
      git_command =
        CommandWith(IF target.none \/ Blank(target.val)
                    THEN GlobalPathspecs
                    ELSE IF EndsWith(WithoutTrailingSlashes(target.val), DOT_PY)
                    THEN FilePathspecs(WithoutTrailingSlashes(target.val))
                    ELSE DirPathspecs(WithoutTrailingSlashes(target.val)))

\* C15 as amended: the global pathspecs are also what a target gives that is
\* empty or whitespace-only once its trailing slashes are removed.
C15_PathspecsByCleanTarget ==
    git_command # <<>> =>
      git_command =
        CommandWith(IF target.none \/ Blank(WithoutTrailingSlashes(target.val))
                    THEN GlobalPathspecs
                    ELSE IF EndsWith(WithoutTrailingSlashes(target.val), DOT_PY)
                    THEN FilePathspecs(WithoutTrailingSlashes(target.val))
                    ELSE DirPathspecs(WithoutTrailingSlashes(target.val)))

C15_Witness ==
    /\ target = Str(<<SP, "/", "/">>)
    /\ refs = <<REF_OLD, HEAD>>
    /\ git_command = <<GIT, DIFF, UNIFIED, REF_OLD, HEAD, DASHDASH>> \o GlobalPathspecs

(***************************************************************************)
(* Properties of a whole run (SpecProcess).                                *)
(***************************************************************************)
\* C16: when git cannot be started or exits non-zero, the error leaves the
\* git handler and process_current_changes / process_commit_range: there is
\* no record, no model call and no file.
C16_GitFailureIsFatal ==
    git_outcome \in {"FileNotFoundError", "CalledProcessError"} =>
        /\ pc = "raised"
        /\ ~parsed
        /\ diffs_info = <<>>
        /\ diff_infos = <<>>
        /\ rendered = {}
        /\ called = {}
        /\ vertex_ai_initialized_configs = {}
    /\ sdk_inits = <<>>
        /\ saved = {}
        /\ files = EmptyFiles
        /\ dirs = {<<>>}
        /\ ~summary.logged
        /\ ~ENABLED ForStep

C16_Witness ==
    /\ git_outcome = "CalledProcessError"
    /\ refs = <<REF_OLD, HEAD>>
    /\ git_command # <<>>
    /\ pc = "raised"

(***************************************************************************)
(* Properties of the file writer (SpecWriter).                             *)
(***************************************************************************)
\* the last call returned a path
Saved == last_save.made /\ ~last_save.path.none

\* the directory of the last call's original path, and its file name
OriginalDir == SubSeq(last_save.original_file_path, 1,
                      Len(last_save.original_file_path) - 1)

OriginalName == last_save.original_file_path[Len(last_save.original_file_path)]

\* C17: a successful write puts the code at <output root>/<directory of the
\* original path>/test_<original file name>, a path under the output root.
C17_MirroredUnderOutputRoot ==
    Saved =>
      LET dest == last_save.path.val
          root == last_save.base_output_dir
      IN  /\ dest \in DOMAIN files
          /\ files[dest] = last_save.code
          /\ dest = root \o OriginalDir \o << <<"test_">> \o OriginalName >>
          /\ Len(dest) > Len(root)
          /\ SubSeq(dest, 1, Len(root)) = root

\* C18: the writer never raises; a failed directory creation, open or write
\* gives None, and a path is returned only when all of them succeeded.
C18_WriterNeverRaises ==
    last_save.made =>
        /\ ~last_save.raised
        /\ (last_save.io # "ok" => last_save.path.none)
        /\ (~last_save.path.none =>
              /\ last_save.io = "ok"
              /\ SubSeq(last_save.path.val, 1, Len(last_save.path.val) - 1) \in dirs
              /\ last_save.path.val \in DOMAIN files
              /\ files[last_save.path.val] = last_save.code)

C18_Witness ==
    /\ last_save.made
    /\ last_save.io = "write_fail"
    /\ last_save.code = <<"a">>
    /\ last_save.path.none
    /\ n_saves = 2

\* C19: a successful write replaces the whole file: the file holds exactly
\* the code whatever it held before, directories that exist are no error,
\* every other file is unchanged, and the same call once more changes nothing.
C19_WholeFileOverwrite ==
    Saved =>
      LET dest == last_save.path.val
          again == save_test_code_to_file(last_save.original_file_path,
                                          last_save.code, last_save.base_output_dir,
                                          files, dirs, "ok")
      IN  /\ files[dest] = last_save.code
          /\ DOMAIN files = DOMAIN last_save.files_before \cup {dest}
          /\ \A f \in DOMAIN last_save.files_before :
               f # dest => files[f] = last_save.files_before[f]
          /\ last_save.dirs_before \subseteq dirs
          /\ again.path = last_save.path
          /\ again.files = files
          /\ again.dirs = dirs

C19_Witness ==
    /\ Saved
    /\ last_save.path.val \in DOMAIN last_save.files_before
    /\ last_save.files_before[last_save.path.val] = <<"a">>
    /\ last_save.code = <<"b">>
    /\ files[last_save.path.val] = <<"b">>

\* C20: a call with empty code returns None and changes nothing: no directory
\* is made and a file at the destination keeps its content.
C20_EmptyCodeChangesNothing ==
    (last_save.made /\ last_save.code = <<>>) =>
        /\ last_save.path.none
        /\ files = last_save.files_before
        /\ dirs = last_save.dirs_before

C20_Witness ==
    /\ last_save.made
    /\ last_save.code = <<>>
    /\ last_save.path.none
    /\ last_save.io = "ok"
    /\ \E f \in DOMAIN files :
         /\ f = last_save.base_output_dir \o OriginalDir
                  \o << <<"test_">> \o OriginalName >>
         /\ files[f] = <<"a">>


(***************************************************************************)
(* Claims about the file writer, continued (SpecWriter).                   *)
(***************************************************************************)
\* the file the last call writes to
Destination ==
    PathJoin(PathJoin(last_save.base_output_dir, OriginalDir),
             << <<"test_">> \o OriginalName >>)

\* C21: a write is all-or-nothing: after a writer call the destination is
\* either as it was before the call (absent, or with its old content) or it
\* holds the complete new code; a failing write leaves no emptied file.
C21_WriteIsAllOrNothing ==
    last_save.made =>
      \/ /\ Destination \notin DOMAIN files
         /\ Destination \notin DOMAIN last_save.files_before
      \/ /\ Destination \in DOMAIN files
         /\ Destination \in DOMAIN last_save.files_before
         /\ files[Destination] = last_save.files_before[Destination]
      \/ /\ Destination \in DOMAIN files
         /\ files[Destination] = last_save.code


(***************************************************************************)
(* Claims about the diff parser, continued (SpecDiff).                     *)
(***************************************************************************)
\* the first line of the segment at i that starts with the prefix t, as a
\* set: empty when the segment has no such line
FirstLineWith(r, i, t) ==
    {j \in LinesWith(r, i, t) : \A m \in LinesWith(r, i, t) : j <= m}

\* C24: the record of a segment takes its path from the first line that
\* starts with "--- a/" or from the first line that starts with "+++ b/";
\* a later line with the same prefix never replaces the captured path.
C24_FirstHeaderLineWins ==
    parsed =>
      LET r == raw_diff_output
          segs == UsableSegs(r)
      IN  /\ Len(diffs_info) = Len(segs)
          /\ \A k \in 1..Len(segs) :
               \E j \in FirstLineWith(r, segs[k], MINUS_A)
                          \cup FirstLineWith(r, segs[k], PLUS_B) :
                   diffs_info[k].file_path = PathAt(r, j)


\* the records the parser gives for the segments of r from the k-th on, each
\* segment parsed alone
RECURSIVE RecordsOfSegments(_, _, _)
RecordsOfSegments(r, segs, k) ==
    IF k > Len(segs) THEN <<>>
    ELSE parse_diff_output(SubSeq(r, segs[k], SegEnd(r, segs[k])))
            \o RecordsOfSegments(r, segs, k + 1)

\* C26: every record has a non-empty file_path other than /dev/null; a
\* segment whose "--- a/" and "+++ b/" lines are missing, blank or /dev/null
\* gives no record, and the records are the ones the parser gives for each
\* segment alone, so a dropped segment does not affect the others.
C26_RecordsNameAFile ==
    parsed =>
      LET r == raw_diff_output IN
      /\ \A k \in 1..Len(diffs_info) :
           diffs_info[k].file_path \notin {<<>>, DEV_NULL}
      /\ \A i \in SegStarts(r) :
           ~Usable(r, i) => parse_diff_output(SubSeq(r, i, SegEnd(r, i))) = <<>>
      /\ diffs_info = RecordsOfSegments(r, Ascending(SegStarts(r)), 1)

C26_Witness ==
    /\ parsed
    /\ raw_diff_output = LINE_DIFF_GIT \o LINE_MINUS_A_BLANK
                            \o LINE_DIFF_GIT \o LINE_PLUS_B
    /\ Len(diffs_info) = 1
    /\ diffs_info[1].file_path = <<"m",".","p","y">>


(***************************************************************************)
(* Claims about the response parser, continued (SpecExtract).              *)
(***************************************************************************)
\* C29: code taken from a fenced block (the fenced-python pattern matched a
\* response without the sentinel) contains no fence marker.
C29_BlockCodeHasNoFence ==
    ( /\ extracted # Pending
      /\ ~Contains(response, SENTINEL)
      /\ PatternMatches(response) )
        => /\ ~extracted.none
           /\ ~Contains(extracted.val, FENCE)


(***************************************************************************)
(* Claims about a whole run, continued (SpecProcess, Spec).                *)
(***************************************************************************)
\* the records a step starts to render, call, save, log or skip
TouchedRecords ==
    (rendered' \ rendered) \cup (called' \ called) \cup (saved' \ saved)
        \cup (surfaced' \ surfaced) \cup (no_code' \ no_code)
        \cup (DOMAIN code_of' \ DOMAIN code_of)

\* the diff_infos of the run are as many as the records of the git handler,
\* and their texts are found in the raw diff one after the other
InRawDiffOrder ==
    parsed =>
      /\ Len(diff_infos) = Len(diffs_info)
      /\ \A k \in 1..Len(diff_infos) :
           /\ Find(raw_diff_output, diff_infos[k].diff_content, 1) # 0
           /\ \A m \in 1..(k - 1) :
                Find(raw_diff_output, diff_infos[m].diff_content, 1)
                  < Find(raw_diff_output, diff_infos[k].diff_content, 1)

\* the saved paths are test files of records with ascending indices
InRecordOrder ==
    \A a \in 1..Len(saved_file_paths) :
      \E j \in Records :
        /\ saved_file_paths[a] = TestPathOf(j)
        /\ \A b \in 1..(a - 1) :
             \E m \in 1..(j - 1) : saved_file_paths[b] = TestPathOf(m)

\* one step works on the current record only and moves to the next record
\* or stays; the step that calls the model and the step that ends the loop
\* body are taken for a record that has had no call and no output yet
OneRecordAtATime ==
    /\ TouchedRecords \subseteq {idx}
    /\ idx' \in {idx, idx + 1}
    /\ pc = "generate" => idx \notin called
    /\ pc = "output" => idx \notin DOMAIN code_of

\* C23: the records are processed strictly one at a time, in the order of
\* the raw diff; the model is called at most once per record, and the saved
\* paths are in record order.
C23_SequentialInDiffOrder ==
    [][ /\ OneRecordAtATime
        /\ diff_infos' # diff_infos => InRawDiffOrder'
        /\ InRecordOrder'
        /\ rendered' \subseteq 1..idx' ]_vars

C23_Witness ==
    /\ raw_diff_output = TWO_FILE_DIFF
    /\ called = {1, 2}
    /\ Len(saved_file_paths) = 2
    /\ saved_file_paths[1] = << <<"tests">>, <<"test_", "m", ".", "p", "y">> >>


\* the number of records the for loop has taken so far
Visited ==
    IF pc = "for" THEN idx - 1
    ELSE IF idx <= Len(diff_infos) THEN idx ELSE Len(diff_infos)

\* the records whose loop body ended with a non-empty extracted string
WithCode == {j \in DOMAIN code_of : Truthy(code_of[j])}

\* saved paths <= processed count <= visited records <= records
CountersOrdered ==
    /\ Len(saved_file_paths) <= processed_files_count
    /\ processed_files_count <= Visited
    /\ Visited <= Len(diff_infos)
    /\ processed_files_count = Cardinality(WithCode)

\* C27: at every point of a run, saved paths <= processed count <= visited
\* records <= records; the counters only grow; the count goes up by one in
\* the output step of a record with a non-empty extracted string, also when
\* the write fails, and in no other step; a path is appended only when the
\* writer returned one, which is then a file.
C27_CountersOrderedAndGrowing ==
    [][ /\ CountersOrdered'
        /\ processed_files_count' \in {processed_files_count,
                                       processed_files_count + 1}
        /\ processed_files_count' = processed_files_count + 1
             <=> (pc = "output" /\ Truthy(generated_code))
        /\ Len(saved_file_paths') \in {Len(saved_file_paths),
                                       Len(saved_file_paths) + 1}
        /\ SubSeq(saved_file_paths', 1, Len(saved_file_paths)) = saved_file_paths
        /\ saved_file_paths' # saved_file_paths
             => /\ pc = "output" /\ Truthy(generated_code) /\ output_dir # <<>>
                /\ idx \notin write_failed'
                /\ saved_file_paths'[Len(saved_file_paths')] \in DOMAIN files'
                /\ files'[saved_file_paths'[Len(saved_file_paths')]]
                     = generated_code.val ]_vars

C27_Witness ==
    /\ pc = "done"
    /\ Len(diff_infos) = 2
    /\ processed_files_count = 2
    /\ write_failed = {1}
    /\ Len(saved_file_paths) = 1


(***************************************************************************)
(* Termination of a run.  The interpreter runs the statements of           *)
(* orchestrate_test_generation one after the other, so every step other    *)
(* than the call of input() is taken once it is enabled.  input() returns  *)
(* when the user answers, which nothing forces.                            *)
(***************************************************************************)
\* the statements of the loop and the summary, the parser call apart
ProgramStep ==
    \/ ForStep
    \/ RenderPrompt
    \/ \E env \in Envs : Generate(env)
    \/ \E io \in IoOutcomes : Output(io)
    \/ Summary

\* the parser call returns: ExtractCode is enabled exactly at "extract" and
\* leaves it, so this is WF_vars(ExtractCode) without its ENABLED
ExtractCodeReturns == []<>(pc # "extract")

\* the user gives an answer the while loop accepts
AcceptedInput == \E raw \in RawInputs : Accepted(raw) /\ Input(raw)

SpecLive == Spec /\ WF_vars(ProgramStep) /\ ExtractCodeReturns

Finished == pc = "done" /\ summary.logged

\* C30: a run over its records ends with the summary, logged once: always
\* when it is not interactive, and when it is interactive provided the user
\* gives an accepted answer at each confirmation; a run that never ends
\* stays at one confirmation forever.
C30_RunTerminatesWithOneSummary ==
    /\ ~interactive => <>Finished
    /\ WF_vars(AcceptedInput) => <>Finished
    /\ <>Finished \/ <>[](pc = "input")
    /\ [][pc = "summary" => ~summary.logged]_vars

C30_Witness ==
    /\ Finished
    /\ interactive
    /\ Len(diff_infos) = 2
    /\ answer_of = (1 :> <<"y">>) @@ (2 :> <<"n">>)
    /\ called = {1}


(***************************************************************************)
(* Claims about the model client (SpecClient).                             *)
(***************************************************************************)
\* the vertexai.init calls that succeeded, by their position in sdk_inits
SuccessfulInits == {k \in 1..Len(sdk_inits) : sdk_inits[k].ok}

\* no key has two successful vertexai.init calls
InitSucceedsOncePerKey ==
    \A a \in SuccessfulInits : \A b \in SuccessfulInits :
        sdk_inits[a].key = sdk_inits[b].key => a = b

\* C25: the set of initialised configurations only grows; vertexai.init is
\* called for a key exactly while the key is not in the set, so it succeeds
\* at most once per key; a failed call adds nothing, and the next call with
\* that key calls vertexai.init again.
C25_InitCacheOnlyGrows ==
    [][ LET key == ConfigKey(last_call'.ai_config)
            tries == last_call'.prompt # <<>>
                       /\ key \notin vertex_ai_initialized_configs
        IN  /\ vertex_ai_initialized_configs \subseteq vertex_ai_initialized_configs'
            /\ IF tries
               THEN /\ Len(sdk_inits') = Len(sdk_inits) + 1
                    /\ SubSeq(sdk_inits', 1, Len(sdk_inits)) = sdk_inits
                    /\ sdk_inits'[Len(sdk_inits')].key = key
                    /\ vertex_ai_initialized_configs' =
                         IF sdk_inits'[Len(sdk_inits')].ok
                         THEN vertex_ai_initialized_configs \cup {key}
                         ELSE vertex_ai_initialized_configs
               ELSE /\ sdk_inits' = sdk_inits
                    /\ vertex_ai_initialized_configs' = vertex_ai_initialized_configs
            /\ InitSucceedsOncePerKey' ]_vars

C25_Witness ==
    /\ n_calls = 3
    /\ sdk_inits = << [key |-> <<"p1", "r1">>, ok |-> FALSE],
                      [key |-> <<"p1", "r1">>, ok |-> TRUE] >>
    /\ vertex_ai_initialized_configs = { <<"p1", "r1">> }
    /\ last_call.ai_config = CONFIG_A
    /\ last_call.called

\* the key of the last vertexai.init call that succeeded, as a set
SdkSetUpFor ==
    {sdk_inits[k].key : k \in {a \in SuccessfulInits :
                                 \A b \in SuccessfulInits : b <= a}}

\* C28: when generate_content is called for a configuration, the last
\* successful vertexai.init was for that configuration's project and region.
C28_ModelCallUsesItsOwnConfig ==
    (last_call.made /\ last_call.called)
        => SdkSetUpFor = {ConfigKey(last_call.ai_config)}


(***************************************************************************)
(* Claims about the prompt builder (SpecPrompt).                           *)
(***************************************************************************)
\* the fenced diff of a prompt: the fence line, the content, the fence line
FencedDiff(diff_content) ==
    <<NL>> \o FENCE \o TAG_DIFF \o <<NL>> \o diff_content \o <<NL>> \o FENCE \o <<NL>>

\* the prompt p names the framework in its first line and then holds, in
\* this order, the NO_TESTS_NEEDED instruction, the file path, the fenced
\* diff with the content unchanged and the instructions for the response
PromptShape(args, p) ==
    LET file_line == <<NL, FILE_HEAD, BT>> \o args.diff_info.file_path \o <<BT, NL>>
        fenced == FencedDiff(args.diff_info.diff_content)
        i2 == Find(p, <<NL, SENTINEL_LINE, NL>>, 1)
        i3 == Find(p, file_line, i2 + 2)
        i4 == Find(p, fenced, i3 + Len(file_line) - 1)
        i5 == Find(p, <<NL, INSTRUCTIONS_HEAD, NL>>, i4 + Len(fenced) - 1)
    IN  /\ SubSeq(p, 1, 3) = <<ROLE_HEAD, args.test_framework, ROLE_TAIL>>
        /\ i2 # 0
        /\ i3 # 0
        /\ i4 # 0
        /\ i5 # 0

=============================================================================
